---- MODULE Spec2Model ----
(***************************************************************************)
(* A model of libvtd: the outline parser (libvtd/node.py), the recurrence  *)
(* engine and DateState, and the TrustedSystem queries, patches and        *)
(* Refresh (libvtd/trusted_system.py).                                     *)
(*                                                                         *)
(* Instants (datetime.datetime) are integers: seconds since                *)
(* 2010-01-01 00:00:00.  None is the value None.  A raised Python          *)
(* exception is the value Raised.                                          *)
(***************************************************************************)
EXTENDS Integers, Sequences, FiniteSets, TLC

\* None and a raised exception, as integers that are no instant, no day of a
\* month and no count, so that optional integers compare
None == 0 - 999999
Raised == 0 - 999998

(***************************************************************************)
(* The calendar behind datetime and dateutil.relativedelta.                *)
(***************************************************************************)
SecPerMin == 60
SecPerHour == 3600
SecPerDay == 86400
\* days from 1970-01-01 to 2010-01-01, the origin of the model's instants
EpochDays == 14610
\* date.weekday() of 2010-01-01: Monday is 0, so Friday is 4
EpochWeekday == 4

Min2(a, b) == IF a <= b THEN a ELSE b
Max2(a, b) == IF a >= b THEN a ELSE b

IsLeap(y) == (y % 4 = 0 /\ y % 100 # 0) \/ y % 400 = 0

DaysInMonth(y, m) ==
    IF m = 2 THEN (IF IsLeap(y) THEN 29 ELSE 28)
    ELSE IF m \in {4, 6, 9, 11} THEN 30 ELSE 31

\* datetime.date(y, m, d) as a day number (days since 2010-01-01)
DaysFromCivil(y, m, d) ==
    LET yy == IF m <= 2 THEN y - 1 ELSE y
        era == yy \div 400
        yoe == yy - era * 400
        mp == IF m > 2 THEN m - 3 ELSE m + 9
        doy == (153 * mp + 2) \div 5 + d - 1
        doe == yoe * 365 + yoe \div 4 - yoe \div 100 + doy
    IN era * 146097 + doe - 719468 - EpochDays

\* the (year, month, day) of a day number
CivilFromDays(z0) ==
    LET OfMp(era, yoe, doy, mp) ==
            [y |-> yoe + era * 400 + (IF mp >= 10 THEN 1 ELSE 0),
             m |-> IF mp < 10 THEN mp + 3 ELSE mp - 9,
             d |-> doy - (153 * mp + 2) \div 5 + 1]
        OfDoy(era, yoe, doy) == OfMp(era, yoe, doy, (5 * doy + 2) \div 153)
        OfYoe(era, doe, yoe) ==
            OfDoy(era, yoe, doe - (365 * yoe + yoe \div 4 - yoe \div 100))
        OfDoe(era, doe) ==
            OfYoe(era, doe,
                  (doe - doe \div 1460 + doe \div 36524 - doe \div 146096) \div 365)
        OfEra(z, era) == OfDoe(era, z - era * 146097)
        OfZ(z) == OfEra(z, z \div 146097)
    IN OfZ(z0 + EpochDays + 719468)

\* datetime.date(), datetime.time() and datetime.combine
DateOf(t) == t \div SecPerDay
TimeOf(t) == t % SecPerDay
Combine(day, tod) == day * SecPerDay + tod
\* date.weekday(): Monday is 0
WeekdayOf(day) == (day + EpochWeekday) % 7
At(y, m, d, hh, mm) == Combine(DaysFromCivil(y, m, d), hh * SecPerHour + mm * SecPerMin)

\* date + dateutil.relativedelta.relativedelta(months=n): the day of the month
\* is clamped to the length of the target month
AddMonthsDate(day, n) ==
    LET Clamped(y, m, d) == DaysFromCivil(y, m, Min2(d, DaysInMonth(y, m)))
        OfMonth(k, d) == Clamped(k \div 12, (k % 12) + 1, d)
        OfCivil(c) == OfMonth(c.y * 12 + (c.m - 1) + n, c.d)
    IN OfCivil(CivilFromDays(day))

\* date.replace(day=1)
FirstOfMonth(day) ==
    LET OfCivil(c) == DaysFromCivil(c.y, c.m, 1) IN OfCivil(CivilFromDays(day))

(***************************************************************************)
(* Date primitives (node.py 19-166).  A boundary string is a record        *)
(* [given, day, tod]: given is FALSE for None (no string); day is the      *)
(* weekday (Monday 0) of a week boundary, the signed day of the month of a *)
(* month boundary, None in a day boundary; tod is the HH:MM part in        *)
(* seconds, None when absent.  Week boundaries always name their weekday.  *)
(***************************************************************************)
NoString == [given |-> FALSE, day |-> None, tod |-> None]

EndOfDay == 23 * SecPerHour + 59 * SecPerMin

PreviousTime(date_and_time, time_string, due) ==
    LET time == IF time_string.given /\ time_string.day = None
                   /\ time_string.tod # None
                THEN time_string.tod ELSE 0
        Before(new_datetime) ==
            IF new_datetime >= date_and_time THEN new_datetime - SecPerDay
            ELSE new_datetime
    IN Before(Combine(DateOf(date_and_time), time))

PreviousWeekDay(date_and_time, weekday_string, due) ==
    LET parsed == weekday_string.given /\ weekday_string.day # None
        wd == IF parsed THEN weekday_string.day ELSE 6
        time == IF ~parsed THEN 0
                ELSE IF weekday_string.tod # None THEN weekday_string.tod
                ELSE IF due THEN EndOfDay ELSE 0
        day == DateOf(date_and_time)
        same == Combine(day, time)
        Asserted(new_datetime) ==
            IF new_datetime < date_and_time THEN new_datetime ELSE Raised
    IN Asserted(IF WeekdayOf(day) = wd
                THEN (IF same > date_and_time THEN same - 7 * SecPerDay ELSE same)
                ELSE Combine(day - ((WeekdayOf(day) - wd) % 7), time))

DayOfMonth(date_and_time, offset) ==
    FirstOfMonth(DateOf(date_and_time)) + (offset - 1)

AdvanceByMonths(date_and_time, num, from_start) ==
    IF from_start
    THEN Combine(AddMonthsDate(DateOf(date_and_time), num), TimeOf(date_and_time))
    ELSE LET date == DateOf(date_and_time)
             FromEnd(offset) ==
                 Combine(AddMonthsDate(date + offset, num) - offset,
                         TimeOf(date_and_time))
         IN FromEnd(FirstOfMonth(AddMonthsDate(date, 1)) - date)

RECURSIVE StepForward(_, _, _)
StepForward(new_datetime, date_and_time, from_start) ==
    IF new_datetime < date_and_time
    THEN StepForward(AdvanceByMonths(new_datetime, 1, from_start),
                     date_and_time, from_start)
    ELSE new_datetime

RECURSIVE StepBack(_, _, _)
StepBack(new_datetime, date_and_time, from_start) ==
    IF new_datetime > date_and_time
    THEN StepBack(AdvanceByMonths(new_datetime, -1, from_start),
                  date_and_time, from_start)
    ELSE new_datetime

PreviousMonthDay(date_and_time, monthday_string, due) ==
    LET parsed == monthday_string.given /\ monthday_string.day # None
        month_day == IF parsed THEN monthday_string.day ELSE 0
        time == IF parsed /\ monthday_string.tod # None THEN monthday_string.tod
                ELSE IF due THEN EndOfDay ELSE 0
        from_start == month_day > 0
        start == Combine(DayOfMonth(date_and_time, month_day), time)
    IN StepBack(StepForward(start, date_and_time, from_start),
                date_and_time, from_start)

\* DoableNode._interval_boundary_function[unit](d, b, due)
IntervalBoundary(unit, d, b, due) ==
    CASE unit = "day" -> PreviousTime(d, b, due)
      [] unit = "week" -> PreviousWeekDay(d, b, due)
      [] unit = "month" -> PreviousMonthDay(d, b, due)

\* DoableNode._date_advancing_function[unit](d, n, from_start)
DateAdvance(unit, d, n, from_start) ==
    CASE unit = "day" -> d + n * SecPerDay
      [] unit = "week" -> d + 7 * n * SecPerDay
      [] unit = "month" -> AdvanceByMonths(d, n, from_start)

(***************************************************************************)
(* Nodes.  A parsed File is a record [nodes, bad_lines, _file_name]; nodes *)
(* is the sequence of its nodes in the order of their first lines, and a   *)
(* node's parent is an index into it, 0 for the File itself.  The children *)
(* of a node are the nodes naming it as parent, in index order (AddChild   *)
(* appends).  Every node carries the attributes of Node, IndentedNode and  *)
(* DoableNode; those its class lacks keep their initial value and are not  *)
(* read.                                                                   *)
(***************************************************************************)
DateStates == <<"invisible", "ready", "new", "due", "late">>

IsDoable(n) == n.type \in {"Project", "NextAction"}
IsIndented(n) == n.type \in {"Project", "NextAction", "Comment"}

\* Node.__init__, IndentedNode.__init__, DoableNode.__init__, Section.__init__,
\* Project.__init__ : the attributes of a fresh node
NewNode(type, indent, level, ordered, id0) ==
    [type |-> type, parent |-> 0, indent |-> indent, level |-> level,
     ordered |-> ordered,
     _text |-> <<>>, _raw_text |-> <<>>, _line_in_file |-> 1,
     _contexts |-> <<>>, _canceled_contexts |-> <<>>, _priority |-> None,
     _due_date |-> None, _ready_date |-> None, _visible_date |-> None,
     inbox |-> FALSE, waiting |-> FALSE,
     done |-> FALSE, recurring |-> FALSE, last_done |-> None,
     ids |-> <<id0>>, blockers |-> <<>>,
     _recur_min |-> None, _recur_max |-> None, _recur_unit |-> "none",
     _recur_unit_boundary |-> NoString, _recur_subunit_visible |-> NoString]

(***************************************************************************)
(* Inherited properties (node.py 318-364).  nodes is the node sequence of  *)
(* one File; i = 0 is the File, which sets nothing.                        *)
(***************************************************************************)
RECURSIVE due_date(_, _)
due_date(nodes, i) ==
    IF i = 0 THEN None
    ELSE LET parent_due_date == due_date(nodes, nodes[i].parent)
         IN IF nodes[i]._due_date = None THEN parent_due_date
            ELSE IF parent_due_date = None THEN nodes[i]._due_date
            ELSE Min2(nodes[i]._due_date, parent_due_date)

RECURSIVE ready_date(_, _)
ready_date(nodes, i) ==
    IF i = 0 THEN None
    ELSE LET parent_ready_date == ready_date(nodes, nodes[i].parent)
         IN IF nodes[i]._ready_date = None THEN parent_ready_date
            ELSE IF parent_ready_date = None THEN nodes[i]._ready_date
            ELSE Min2(nodes[i]._ready_date, parent_ready_date)

RECURSIVE visible_date(_, _)
visible_date(nodes, i) ==
    IF i = 0 THEN None
    ELSE LET parent_visible_date == visible_date(nodes, nodes[i].parent)
         IN IF nodes[i]._visible_date = None THEN parent_visible_date
            ELSE IF parent_visible_date = None THEN nodes[i]._visible_date
            ELSE Max2(nodes[i]._visible_date, parent_visible_date)

\* priority with a truth test in place of the test against None
RECURSIVE priority_ZeroUnset(_, _)
priority_ZeroUnset(nodes, i) ==
    IF i = 0 THEN None
    ELSE IF nodes[i]._priority # None /\ nodes[i]._priority # 0
         THEN nodes[i]._priority
    ELSE priority_ZeroUnset(nodes, nodes[i].parent)

\* Node.priority (node.py 338-342)
RECURSIVE priority(_, _)
priority(nodes, i) ==
    IF i = 0 THEN None
    ELSE IF nodes[i]._priority # None THEN nodes[i]._priority
    ELSE priority(nodes, nodes[i].parent)

\* [c for c in seq if c not in drop]
RECURSIVE Without(_, _)
Without(seq, drop) ==
    IF seq = <<>> THEN <<>>
    ELSE IF \E k \in 1..Len(drop) : drop[k] = Head(seq)
         THEN Without(Tail(seq), drop)
         ELSE <<Head(seq)>> \o Without(Tail(seq), drop)

\* contexts without the filter on canceled contexts
RECURSIVE contexts_NoCancel(_, _)
contexts_NoCancel(nodes, i) ==
    IF i = 0 THEN <<>>
    ELSE nodes[i]._contexts \o contexts_NoCancel(nodes, nodes[i].parent)

\* Node.contexts (node.py 318-323)
RECURSIVE contexts(_, _)
contexts(nodes, i) ==
    IF i = 0 THEN <<>>
    ELSE Without(nodes[i]._contexts \o contexts(nodes, nodes[i].parent),
                 nodes[i]._canceled_contexts)

(***************************************************************************)
(* The recurrence engine (node.py 679-731).  The result is the node after  *)
(* the call and whether the call raised; an exception leaves the           *)
(* assignments made before it in place.                                    *)
(***************************************************************************)
\* lines 682-693: months are counted from the end of the month when the
\* boundary's day number is below 1
due_from_start(n) ==
    ~(n._recur_unit = "month" /\ n._recur_unit_boundary.given
      /\ n._recur_unit_boundary.day < 1)

vis_from_start(n) ==
    ~(n._recur_unit = "month" /\ n._recur_subunit_visible.given
      /\ n._recur_subunit_visible.day < 1)

\* lines 722-731: the assignments, the visible date being moved when its
\* boundary exists and visible the boundary before it
Assign(n, base_datetime, moved, visible) ==
    IF visible = Raised
    THEN [n |-> [n EXCEPT !._visible_date = moved], raised |-> TRUE]
    ELSE [n |-> [n EXCEPT
              !._visible_date = visible,
              !._ready_date = DateAdvance(n._recur_unit, base_datetime,
                                          n._recur_max, due_from_start(n)),
              !._due_date = DateAdvance(n._recur_unit, base_datetime,
                                        n._recur_max + 1, due_from_start(n))],
          raised |-> FALSE]

\* lines 728-729
ToBoundary(n, base_datetime, moved) ==
    Assign(n, base_datetime, moved,
           IntervalBoundary(n._recur_unit, moved, n._recur_subunit_visible,
                            FALSE))

\* lines 722-727
FromBase(n, base_datetime, visible) ==
    IF n._recur_subunit_visible.given
    THEN ToBoundary(n, base_datetime,
                    DateAdvance(n._recur_unit, visible, 1, vis_from_start(n)))
    ELSE Assign(n, base_datetime, visible, visible)

\* the base left where the unit boundary before last_done put it
LateCredit_None(n, base_datetime, previous_vis_date) == base_datetime

\* lines 703-718: a completion after the due time and before the action was
\* visible again counts for the interval that ended
LateCredit(n, base_datetime, previous_vis_date) ==
    IF n._recur_subunit_visible.given /\ base_datetime > previous_vis_date
    THEN DateAdvance(n._recur_unit, base_datetime, -1, due_from_start(n))
    ELSE base_datetime

\* lines 720-731 from the base, which is the node unchanged when one of the
\* two boundaries before last_done raised
Based(n, base_datetime) ==
    IF base_datetime = Raised THEN [n |-> n, raised |-> TRUE]
    ELSE FromBase(n, base_datetime,
                  DateAdvance(n._recur_unit, base_datetime, n._recur_min,
                              vis_from_start(n)))

Bounded(n, base_datetime, previous_vis_date) ==
    Based(n, IF base_datetime = Raised \/ previous_vis_date = Raised
             THEN Raised
             ELSE LateCredit(n, base_datetime, previous_vis_date))

\* DoableNode._SetRecurringDates (node.py 679-731)
_SetRecurringDates(n) ==
    Bounded(n,
            IntervalBoundary(n._recur_unit, n.last_done, n._recur_unit_boundary,
                             TRUE),
            IF n._recur_subunit_visible.given
            THEN IntervalBoundary(n._recur_unit, n.last_done,
                                  n._recur_subunit_visible, FALSE)
            ELSE None)

(***************************************************************************)
(* DoableNode.DateState (node.py 575-596).  The call may assign the        *)
(* node's own dates, so the result carries the node sequence after it.     *)
(***************************************************************************)
\* the switch with the node late from the instant it is due
State_LateWhenDue(after, i, now) ==
    IF visible_date(after, i) # None /\ now < visible_date(after, i)
    THEN "invisible"
    ELSE IF due_date(after, i) = None THEN "ready"
    ELSE IF due_date(after, i) <= now THEN "late"
    ELSE IF ready_date(after, i) = None THEN "Raised"
    ELSE IF ready_date(after, i) < now THEN "due"
    ELSE "ready"

\* lines 588-596: the switch on the effective dates; a ready date that is
\* None cannot be compared with now
State(after, i, now) ==
    IF visible_date(after, i) # None /\ now < visible_date(after, i)
    THEN "invisible"
    ELSE IF due_date(after, i) = None THEN "ready"
    ELSE IF due_date(after, i) < now THEN "late"
    ELSE IF ready_date(after, i) = None THEN "Raised"
    ELSE IF ready_date(after, i) < now THEN "due"
    ELSE "ready"

Stated(nodes, i, now, set) ==
    [nodes |-> [nodes EXCEPT ![i] = set.n],
     state |-> IF set.raised THEN "Raised"
               ELSE State([nodes EXCEPT ![i] = set.n], i, now)]

DateState(nodes, i, now) ==
    IF nodes[i].recurring
    THEN IF nodes[i].last_done = None
         THEN [nodes |-> nodes, state |-> "new"]
         ELSE Stated(nodes, i, now, _SetRecurringDates(nodes[i]))
    ELSE [nodes |-> nodes, state |-> State(nodes, i, now)]

(***************************************************************************)
(* Lines and tokens.  A line of a file is a record                         *)
(*   [sigil, indent, level, tokens, words]:                                *)
(* sigil is "=" (a section header, level its count of "="), "#", "-", "@", *)
(* "*", or "" for a line that starts no node; indent is the number of      *)
(* leading spaces; tokens are its special sequences in line order; words   *)
(* is the remaining text.  A blank line has no sigil, tokens or words.     *)
(* A token is a record [k, s, n, m, tod, unit, vis, due, ok]:              *)
(*   k = "due":  <date[ time][(m)],  n the day number, tod the time        *)
(*   k = "vis":  >date[ time]                                              *)
(*   k = "ctx":  @s   k = "ctx2": @@s   k = "cancel": @!s                  *)
(*   k = "prio": @p:n                                                      *)
(*   k = "done": (DONE) or (WONTDO)   k = "id": #s   k = "after": @after:s *)
(*   k = "recur": EVERY [n-]m unit [vis - due]                             *)
(*   k = "lastdone": (LASTDONE date time)                                  *)
(* ok is FALSE when the token's date does not exist on the calendar        *)
(* (strptime raises ValueError).                                           *)
(***************************************************************************)
Tok(k) == [k |-> k, s |-> "", n |-> None, m |-> None, tod |-> None,
           unit |-> "none", vis |-> NoString, due |-> NoString, ok |-> TRUE]

\* the text that a token leaves in the node's text when it is not consumed
TokText(t) == "<" \o t.k \o ">"

RECURSIVE TokTexts(_)
TokTexts(toks) ==
    IF toks = <<>> THEN <<>> ELSE <<TokText(Head(toks))>> \o TokTexts(Tail(toks))

IsBlank(line) == line.sigil = "" /\ line.tokens = <<>> /\ line.words = <<>>

\* Node.AddContext (node.py 269-279)
AddContext(n, context, cancel) ==
    IF context = "inbox" THEN [n EXCEPT !.inbox = TRUE]
    ELSE IF context = "waiting" THEN [n EXCEPT !.waiting = TRUE]
    ELSE IF cancel
    THEN (IF \E k \in 1..Len(n._canceled_contexts) : n._canceled_contexts[k] = context
          THEN n
          ELSE [n EXCEPT !._canceled_contexts = Append(@, context)])
    ELSE (IF \E k \in 1..Len(n._contexts) : n._contexts[k] = context
          THEN n
          ELSE [n EXCEPT !._contexts = Append(@, context)])

\* Node._ParseDueDate (node.py 394-422)
_ParseDueDate(n, t) ==
    IF ~t.ok THEN n
    ELSE LET due == IF t.tod # None THEN Combine(t.n, t.tod)
                    ELSE Combine(t.n, 0) + SecPerDay - 1
             days_before == IF t.m # None THEN t.m ELSE 1
         IN [n EXCEPT !._due_date = due,
                      !._ready_date = due - days_before * SecPerDay]

\* a _ParseVisDate that takes every date
_ParseVisDate_Unchecked(n, t) ==
    [n EXCEPT !._visible_date = IF t.ok /\ t.tod # None
                                THEN Combine(t.n, t.tod) ELSE 0]

\* Node._ParseVisDate (node.py 444-462)
_ParseVisDate(n, t) ==
    IF ~t.ok THEN n
    ELSE [n EXCEPT !._visible_date = Combine(t.n, IF t.tod # None THEN t.tod ELSE 0)]

\* Node._ParseContext (node.py 378-392)
_ParseContext(n, t) == AddContext(n, t.s, t.k = "cancel")

\* Node._ParsePriority (node.py 424-434)
_ParsePriority(n, t) == [n EXCEPT !._priority = t.n]

\* DoableNode._ParseDone, _ParseId, _ParseAfter (node.py 598-608)
_ParseDone(n, t) == [n EXCEPT !.done = TRUE]
_ParseId(n, t) == [n EXCEPT !.ids = Append(@, t.s)]
_ParseAfter(n, t) == [n EXCEPT !.blockers = Append(@, t.s)]

\* DoableNode._ParseLastDone (node.py 610-617)
_ParseLastDone(n, t) ==
    IF ~t.ok \/ t.tod = None THEN n
    ELSE [n EXCEPT !.last_done = Combine(t.n, t.tod)]

\* DoableNode._ParseRecur (node.py 619-630)
_ParseRecur(n, t) ==
    LET max == IF t.m # None THEN t.m ELSE 1
    IN [n EXCEPT !.recurring = TRUE,
                 !._recur_max = max,
                 !._recur_min = IF t.n # None THEN t.n ELSE max,
                 !._recur_unit = t.unit,
                 !._recur_unit_boundary = t.due,
                 !._recur_subunit_visible = t.vis]

\* the match object a recurring node keeps in _recur_raw_string
RecurMatch(n) ==
    [Tok("recur") EXCEPT !.n = n._recur_min, !.m = n._recur_max,
                         !.unit = n._recur_unit,
                         !.due = n._recur_unit_boundary,
                         !.vis = n._recur_subunit_visible]

CommonKinds == {"due", "vis", "ctx", "ctx2", "cancel", "prio"}
DoableKinds == {"done", "id", "after", "recur", "lastdone"}

\* whether the node's patterns consume the token (the callback returns '' or
\* the bare context) or leave it in the text
Consumes(n, t) ==
    /\ t.k \in CommonKinds \/ (IsDoable(n) /\ t.k \in DoableKinds)
    /\ t.k \in {"due", "vis", "lastdone"} => t.ok
    /\ t.k = "lastdone" => t.tod # None

ParseToken(n, t) ==
    CASE t.k = "due" -> _ParseDueDate(n, t)
      [] t.k = "vis" -> _ParseVisDate(n, t)
      [] t.k \in {"ctx", "ctx2", "cancel"} -> _ParseContext(n, t)
      [] t.k = "prio" -> _ParsePriority(n, t)
      [] t.k = "done" -> _ParseDone(n, t)
      [] t.k = "id" -> _ParseId(n, t)
      [] t.k = "after" -> _ParseAfter(n, t)
      [] t.k = "recur" -> _ParseRecur(n, t)
      [] t.k = "lastdone" -> _ParseLastDone(n, t)
      [] OTHER -> n

\* pattern.sub(callback, text) for the patterns of the kinds in ks: every
\* match, left to right
RECURSIVE Sub(_, _, _)
Sub(n, toks, ks) ==
    IF toks = <<>> THEN n
    ELSE Sub(IF Head(toks).k \in ks /\ (Head(toks).k \in CommonKinds \/ IsDoable(n))
             THEN ParseToken(n, Head(toks)) ELSE n,
             Tail(toks), ks)

\* the patterns in the order in which AbsorbText and
\* _ParseSpecializedTokens apply them (node.py 238-244, 632-641)
Patterns ==
    <<{"due"}, {"vis"}, {"ctx", "ctx2", "cancel"}, {"prio"}, {"done"}, {"id"},
      {"after"}, {"recur"}, {"lastdone"}>>

RECURSIVE Subs(_, _, _)
Subs(n, toks, patterns) ==
    IF patterns = <<>> THEN n
    ELSE Subs(Sub(n, toks, Head(patterns)), toks, Tail(patterns))

\* what the substitutions leave of a line: the words, the tokens not
\* consumed, and the bare word of each @@context
RECURSIVE Residue(_, _)
Residue(n, toks) ==
    IF toks = <<>> THEN <<>>
    ELSE (IF ~Consumes(n, Head(toks)) THEN <<TokText(Head(toks))>>
          ELSE IF Head(toks).k = "ctx2" THEN <<Head(toks).s>>
          ELSE <<>>) \o Residue(n, Tail(toks))

\* Node._CanAbsorbText, IndentedNode._CanAbsorbText (node.py 366-372, 478-485)
_CanAbsorbText(n, line) ==
    IF IsIndented(n)
    THEN n._text = <<>> \/ IsBlank(line) \/ line.indent >= n.indent + 2
    ELSE n._text = <<>>

\* an AbsorbText that records the line before it asks _CanAbsorbText
AbsorbText_AppendFirst(n, tokens, words, raw) ==
    IF ~_CanAbsorbText(n, raw)
    THEN [ok |-> FALSE, n |-> [n EXCEPT !._raw_text = Append(@, raw)]]
    ELSE [ok |-> TRUE,
          n |-> [Subs([n EXCEPT !._raw_text = Append(@, raw)], tokens, Patterns)
                    EXCEPT !._text = @ \o words \o Residue(n, tokens)]]

\* Node.AbsorbText (node.py 222-252) with DoableNode._ParseSpecializedTokens
\* (node.py 632-641): tokens holds the special sequences of the text, words
\* the rest, raw the line as it stands in the file
AbsorbText(n, tokens, words, raw) ==
    IF ~_CanAbsorbText(n, raw) THEN [ok |-> FALSE, n |-> n]
    ELSE [ok |-> TRUE,
          n |-> [Subs([n EXCEPT !._raw_text = Append(@, raw)], tokens, Patterns)
                    EXCEPT !._text = @ \o words \o Residue(n, tokens)]]

(***************************************************************************)
(* The tree builder (node.py 734-850) and AddChild (node.py 254-267,       *)
(* 374-376, 474-476, 863-866, 880-897).                                    *)
(***************************************************************************)
\* the class attribute _level: Node 0, File 1, Section 2, Project 3,
\* NextAction 4, Comment 5
_level(type) ==
    CASE type = "File" -> 1
      [] type = "Section" -> 2
      [] type = "Project" -> 3
      [] type = "NextAction" -> 4
      [] type = "Comment" -> 5

_can_nest_same_type(type) == type \in {"Section", "Project", "Comment"}

\* Node._CanContain (node.py 374-376)
NodeCanContain(stype, otype) ==
    _level(stype) < _level(otype)
    \/ (_level(stype) = _level(otype) /\ _can_nest_same_type(stype))

\* a _CanContain that compares no indentation
_CanContain_LevelsOnly(nodes, self, other) ==
    IF self = 0 THEN NodeCanContain("File", other.type)
    ELSE IF ~IsIndented(nodes[self]) /\ other.type = "Section"
    THEN nodes[self].level < other.level
    ELSE NodeCanContain(nodes[self].type, other.type)

\* self._CanContain(other) for the File (self = 0) or the node nodes[self]
_CanContain(nodes, self, other) ==
    IF self = 0 THEN NodeCanContain("File", other.type)
    ELSE IF IsIndented(nodes[self])
    THEN NodeCanContain(nodes[self].type, other.type)
         /\ nodes[self].indent < other.indent
    ELSE IF other.type = "Section" THEN nodes[self].level < other.level
    ELSE NodeCanContain(nodes[self].type, other.type)

\* the last child of nodes[p] that is a DoableNode and not done, 0 if none
LastDoableChild(nodes, p) ==
    LET cs == {j \in 1..Len(nodes) :
                 nodes[j].parent = p /\ IsDoable(nodes[j]) /\ ~nodes[j].done}
    IN IF cs = {} THEN 0 ELSE CHOOSE j \in cs : \A k \in cs : k <= j

\* what Project.AddChild does to the child it has accepted (node.py 882-895)
\* lines 883-892 of a project that takes itself for unordered
Blocks_Unordered(nodes, p, other, last_doable_node) == other

\* lines 883-892: the child of an ordered project is blocked by the last
\* child before it that is not done
Blocks(nodes, p, other, last_doable_node) ==
    IF nodes[p].ordered /\ IsDoable(other) /\ last_doable_node # 0
    THEN [other EXCEPT !.blockers = Append(@, nodes[last_doable_node].ids[1])]
    ELSE other

\* lines 894-895: the child of a recurring project recurs as it does
Inherits(nodes, p, other) ==
    IF nodes[p].recurring /\ IsDoable(other)
    THEN _ParseRecur(other, RecurMatch(nodes[p]))
    ELSE other

ProjectAdopts(nodes, p, other) ==
    Inherits(nodes, p, Blocks(nodes, p, other, LastDoableChild(nodes, p)))

\* self.AddChild(other): the child as attached, parent set
AddChild(nodes, self, other) ==
    IF self # 0 /\ nodes[self].type = "Project"
    THEN ProjectAdopts(nodes, self, [other EXCEPT !.parent = self])
    ELSE [other EXCEPT !.parent = self]

\* a loop that gives the new node to the File as soon as previous_node
\* refuses it
Acceptor_OrFile(nodes, previous_node, new_node) ==
    IF _CanContain(nodes, previous_node, new_node) THEN previous_node ELSE 0

\* the loop of File.__init__ (node.py 776-778): the first of previous_node,
\* its parent, ... that accepts the new node
RECURSIVE Acceptor(_, _, _)
Acceptor(nodes, previous_node, new_node) ==
    IF _CanContain(nodes, previous_node, new_node) THEN previous_node
    ELSE Acceptor(nodes, nodes[previous_node].parent, new_node)

SigilType(sigil) ==
    CASE sigil = "=" -> "Section"
      [] sigil \in {"#", "-"} -> "Project"
      [] sigil = "@" -> "NextAction"
      [] sigil = "*" -> "Comment"

\* the first element of DoableNode.ids, '*{id(self)}': one per node object
InternalId(file_name, line_num) == "*" \o file_name \o ":" \o ToString(line_num)

\* File.CreateNodeFromLine with File._CreateCorrectNodeType (node.py 788-847)
CreateNodeFromLine(file_name, line, line_num) ==
    [AbsorbText(NewNode(SigilType(line.sigil), line.indent, line.level,
                        line.sigil = "#", InternalId(file_name, line_num)),
                line.tokens, line.words, line).n
        EXCEPT !._line_in_file = line_num]

\* one turn of the loop over the lines (node.py 772-782); st is
\* [nodes, bad_lines, previous_node]
Attach(st, new_node) ==
    [st EXCEPT !.nodes = Append(@, AddChild(st.nodes,
                                            Acceptor(st.nodes, st.previous_node,
                                                     new_node),
                                            new_node)),
               !.previous_node = Len(st.nodes) + 1]

Continue(st, line, line_num, r) ==
    IF r.ok THEN [st EXCEPT !.nodes[st.previous_node] = r.n]
    ELSE [st EXCEPT !.bad_lines = Append(@, <<line_num, line>>)]

ParseLine(file_name, st, line, line_num) ==
    IF line.sigil # ""
    THEN Attach(st, CreateNodeFromLine(file_name, line, line_num))
    ELSE IF st.previous_node = 0
    THEN [st EXCEPT !.bad_lines = Append(@, <<line_num, line>>)]
    ELSE Continue(st, line, line_num,
                  AbsorbText(st.nodes[st.previous_node], line.tokens,
                             line.words, line))

RECURSIVE ParseLines(_, _, _, _)
ParseLines(file_name, st, lines, line_num) ==
    IF line_num > Len(lines) THEN st
    ELSE ParseLines(file_name, ParseLine(file_name, st, lines[line_num], line_num),
                    lines, line_num + 1)

\* File.__init__ (node.py 756-786) on a file that can be opened
Parsed(file_name, st) ==
    [_file_name |-> file_name, nodes |-> st.nodes, bad_lines |-> st.bad_lines]

File(file_name, lines) ==
    Parsed(file_name,
           ParseLines(file_name,
                      [nodes |-> <<>>, bad_lines |-> <<>>, previous_node |-> 0],
                      lines, 1))

(***************************************************************************)
(* TrustedSystem (trusted_system.py).  fs is the dict _files: a function   *)
(* from the registered file names to their File records.  A query walks    *)
(* the files in the order of FileNames.  Its matcher calls DateState,      *)
(* which may assign dates to the node, so a query is a fold over the       *)
(* visited nodes that carries fs along; a raised exception ends it.        *)
(***************************************************************************)
FileNames == <<"a.vtd", "b.vtd">>

\* self._files.values(), as file names
RECURSIVE FilesIn(_, _)
FilesIn(fs, k) ==
    IF k > Len(FileNames) THEN <<>>
    ELSE (IF FileNames[k] \in DOMAIN fs THEN <<FileNames[k]>> ELSE <<>>)
         \o FilesIn(fs, k + 1)

\* the default pruner of Collect: 'done' in x.__dict__ and x.done
Pruner(nodes, i) == i # 0 /\ IsDoable(nodes[i]) /\ nodes[i].done

\* TrustedSystem.Collect (trusted_system.py 43-65): the nodes the matcher is
\* called on, in the order of the calls; i = 0 is the File
RECURSIVE Collect(_, _)
RECURSIVE CollectChildren(_, _, _)
CollectChildren(nodes, i, j) ==
    IF j > Len(nodes) THEN <<>>
    ELSE (IF nodes[j].parent = i THEN Collect(nodes, j) ELSE <<>>)
         \o CollectChildren(nodes, i, j + 1)
Collect(nodes, i) ==
    (IF Pruner(nodes, i) THEN <<>> ELSE CollectChildren(nodes, i, i + 1))
    \o <<i>>

\* the nodes of every file that a query's matcher is called on: <<file, index>>
RECURSIVE Tagged(_, _)
Tagged(f, idxs) ==
    IF idxs = <<>> THEN <<>>
    ELSE <<[f |-> f, i |-> Head(idxs)]>> \o Tagged(f, Tail(idxs))

RECURSIVE WalkFiles(_, _)
WalkFiles(fs, names) ==
    IF names = <<>> THEN <<>>
    ELSE Tagged(Head(names), Collect(fs[Head(names)].nodes, 0))
         \o WalkFiles(fs, Tail(names))

Walk(fs) == WalkFiles(fs, FilesIn(fs, 1))

\* File.NodeWithId(id), called by _BlockerExists (trusted_system.py 240):
\* the node of the file that carries the id, 0 (None) when there is none.
\* When several nodes carry the id, one that is not done is found if there
\* is one: blocking asks whether *some* node with the id is not done.
NodeWithId(file, id) ==
    LET carriers == {k \in 1..Len(file.nodes) :
                        /\ IsDoable(file.nodes[k])
                        /\ \E j \in 1..Len(file.nodes[k].ids) :
                               file.nodes[k].ids[j] = id}
        open == {k \in carriers : ~file.nodes[k].done}
    IN IF open # {} THEN CHOOSE k \in open : TRUE
       ELSE IF carriers # {} THEN CHOOSE k \in carriers : TRUE
       ELSE 0

\* TrustedSystem._BlockerExists (trusted_system.py 230-244)
_BlockerExists(fs, id) ==
    \E f \in DOMAIN fs :
        LET node == NodeWithId(fs[f], id)
        IN node # 0 /\ ~fs[f].nodes[node].done

\* the loop over node.blockers in _Blocked (trusted_system.py 219-222)
RECURSIVE BlockerLoop(_, _)
BlockerLoop(fs, blockers) ==
    IF blockers = <<>> THEN FALSE
    ELSE IF _BlockerExists(fs, Head(blockers)) THEN TRUE
    ELSE BlockerLoop(fs, Tail(blockers))

\* _Blocked without the step to the parent
_Blocked_OwnOnly(fs, f, i) ==
    IF i = 0 \/ ~IsDoable(fs[f].nodes[i]) THEN FALSE
    ELSE BlockerLoop(fs, fs[f].nodes[i].blockers)

\* TrustedSystem._Blocked (trusted_system.py 210-228); i = 0 is the File,
\* which like Section and Comment has no attribute blockers: the
\* AttributeError is caught and the answer is False
RECURSIVE _Blocked(_, _, _)
_Blocked(fs, f, i) ==
    IF i = 0 \/ ~IsDoable(fs[f].nodes[i]) THEN FALSE
    ELSE IF BlockerLoop(fs, fs[f].nodes[i].blockers) THEN TRUE
    ELSE _Blocked(fs, f, fs[f].nodes[i].parent)

\* TrustedSystem._OkContexts (trusted_system.py 246-262)
RECURSIVE OkLoop(_, _, _, _)
OkLoop(cs, include, exclude, node_included) ==
    IF cs = <<>> THEN node_included \/ include = {}
    ELSE IF Head(cs) \in exclude THEN FALSE
    ELSE OkLoop(Tail(cs), include, exclude,
                node_included \/ Head(cs) \in include)

_OkContexts(fs, f, i, include, exclude) ==
    OkLoop(contexts(fs[f].nodes, i), include, exclude, FALSE)

\* TrustedSystem._VisibleAction (trusted_system.py 105-120): the value, the
\* files after the call, and whether DateState raised
Seen(fs, f, i, ds) ==
    IF ds.state = "Raised"
    THEN [v |-> FALSE, fs |-> [fs EXCEPT ![f].nodes = ds.nodes], raised |-> TRUE]
    ELSE [v |-> /\ ds.state # "invisible"
                /\ ~_Blocked([fs EXCEPT ![f].nodes = ds.nodes], f, i),
          fs |-> [fs EXCEPT ![f].nodes = ds.nodes], raised |-> FALSE]

_VisibleAction(fs, f, i, now) ==
    IF i = 0 \/ fs[f].nodes[i].type # "NextAction" \/ fs[f].nodes[i].done
    THEN [v |-> FALSE, fs |-> fs, raised |-> FALSE]
    ELSE Seen(fs, f, i, DateState(fs[f].nodes, i, now))

\* the matchers of the queries (trusted_system.py 79-82, 90-103, 122-135,
\* 143-145, 160-162, 182-184, 195-197, 206-207), by query name
Rest(q, n, ok) ==
    CASE q = "NextActions" -> ~(n.recurring \/ n.waiting) /\ ok
      [] q = "RecurringActions" -> (n.recurring /\ ~n.inbox) /\ ok
      [] q = "Inboxes" -> n.inbox /\ ok
      [] q = "AllActions" -> ok /\ ~n.waiting
      [] q = "Waiting" -> n.waiting
      [] q = "ContextList" -> ~n.waiting

Visible(q, f, i, include, exclude, va) ==
    IF ~va.v THEN va
    ELSE [va EXCEPT !.v = Rest(q, va.fs[f].nodes[i],
                               _OkContexts(va.fs, f, i, include, exclude))]

Matcher(q, fs, f, i, now, include, exclude) ==
    Visible(q, f, i, include, exclude, _VisibleAction(fs, f, i, now))

\* the calls of Collect on every file with the matcher of query q: the
\* matched nodes, the files after the calls, whether a call raised
RECURSIVE CollectAll(_, _, _, _, _, _, _)
Matched(q, acc, refs, now, include, exclude, m) ==
    IF m.raised THEN [out |-> acc, fs |-> m.fs, raised |-> TRUE]
    ELSE CollectAll(q, IF m.v THEN Append(acc, Head(refs)) ELSE acc, m.fs,
                    Tail(refs), now, include, exclude)

CollectAll(q, acc, fs, refs, now, include, exclude) ==
    IF refs = <<>> THEN [out |-> acc, fs |-> fs, raised |-> FALSE]
    ELSE Matched(q, acc, refs, now, include, exclude,
                 Matcher(q, fs, Head(refs).f, Head(refs).i, now, include,
                         exclude))

\* the matcher of ProjectsWithoutNextActions (trusted_system.py 278-287)
LacksNextAction(nodes, i) ==
    /\ i # 0
    /\ nodes[i].type = "Project"
    /\ ~nodes[i].done
    /\ ~\E j \in 1..Len(nodes) :
           /\ nodes[j].parent = i
           /\ nodes[j].type \in {"NextAction", "Project"}
           /\ ~nodes[j].done

\* TrustedSystem.ProjectsWithoutNextActions (trusted_system.py 276-292)
RECURSIVE SelectRefs(_, _)
SelectRefs(fs, refs) ==
    IF refs = <<>> THEN <<>>
    ELSE (IF LacksNextAction(fs[Head(refs).f].nodes, Head(refs).i)
          THEN <<Head(refs)>> ELSE <<>>) \o SelectRefs(fs, Tail(refs))

ProjectsWithoutNextActions(fs) == SelectRefs(fs, Walk(fs))

\* a NeedsNextActionStub of a project (node.py 929-939)
Stub(r) == [f |-> r.f, i |-> r.i, stub |-> TRUE]
Plain(r) == [f |-> r.f, i |-> r.i, stub |-> FALSE]

RECURSIVE Plains(_)
Plains(refs) == IF refs = <<>> THEN <<>> ELSE <<Plain(Head(refs))>> \o Plains(Tail(refs))

\* the loop over the projects in NextActions (trusted_system.py 147-151)
RECURSIVE StubLoop(_, _, _, _, _, _)
Stubbed(acc, r, projects, now, include, exclude, state, fs1) ==
    IF state = "Raised" THEN [out |-> acc, fs |-> fs1, raised |-> TRUE]
    ELSE StubLoop(IF /\ state # "invisible"
                     /\ ~_Blocked(fs1, r.f, r.i)
                     /\ _OkContexts(fs1, r.f, r.i, include, exclude)
                  THEN Append(acc, Stub(r)) ELSE acc,
                  fs1, Tail(projects), now, include, exclude)

VisitProject(acc, fs, r, projects, now, include, exclude, ds) ==
    Stubbed(acc, r, projects, now, include, exclude, ds.state,
            [fs EXCEPT ![r.f].nodes = ds.nodes])

StubLoop(acc, fs, projects, now, include, exclude) ==
    IF projects = <<>> THEN [out |-> acc, fs |-> fs, raised |-> FALSE]
    ELSE VisitProject(acc, fs, Head(projects), projects, now, include, exclude,
                      DateState(fs[Head(projects).f].nodes, Head(projects).i,
                                now))

\* TrustedSystem.NextActions (trusted_system.py 137-152)
Stubs(now, include, exclude, c) ==
    IF c.raised THEN c
    ELSE StubLoop(Plains(c.out), c.fs, ProjectsWithoutNextActions(c.fs),
                  now, include, exclude)

NextActions(fs, now, include, exclude) ==
    Stubs(now, include, exclude,
          CollectAll("NextActions", <<>>, fs, Walk(fs), now, include, exclude))

\* RecurringActions, Inboxes, AllActions, Waiting (trusted_system.py 154-208)
ListQuery(q, fs, now, include, exclude) ==
    [CollectAll(q, <<>>, fs, Walk(fs), now, include, exclude)
        EXCEPT !.out = Plains(@)]

AllActions(fs, now, include, exclude) ==
    ListQuery("AllActions", fs, now, include, exclude)

\* collections.Counter.update over the contexts of the counted nodes: how
\* often context c occurs in the lists node.contexts of refs
RECURSIVE Occurrences(_, _)
Occurrences(seq, c) ==
    IF seq = <<>> THEN 0
    ELSE (IF Head(seq) = c THEN 1 ELSE 0) + Occurrences(Tail(seq), c)

RECURSIVE CountOf(_, _, _)
CountOf(fs, refs, c) ==
    IF refs = <<>> THEN 0
    ELSE Occurrences(contexts(fs[Head(refs).f].nodes, Head(refs).i), c)
         + CountOf(fs, Tail(refs), c)

Range(seq) == {seq[k] : k \in 1..Len(seq)}

\* the keys of the Counter
CountedContexts(fs, refs) ==
    UNION {Range(contexts(fs[r.f].nodes, r.i)) : r \in Range(refs)}

\* Counter.most_common(): the (context, count) pairs sorted by count,
\* largest first; sorted() is stable, so pairs of equal count keep the order
\* in which the dict yields them, which the language does not fix
MostCommon(fs, refs) ==
    LET keys == CountedContexts(fs, refs)
        n == Cardinality(keys)
    IN {out \in [1..n -> {<<c, CountOf(fs, refs, c)>> : c \in keys}] :
          /\ \A a, b \in 1..n : a # b => out[a][1] # out[b][1]
          /\ \A a, b \in 1..n : a < b => out[a][2] >= out[b][2]}

\* the matcher of NextActionsWithoutContexts (trusted_system.py 165-174)
RECURSIVE SelectNoContexts(_, _)
SelectNoContexts(fs, refs) ==
    IF refs = <<>> THEN <<>>
    ELSE (IF Head(refs).i # 0
             /\ fs[Head(refs).f].nodes[Head(refs).i].type = "NextAction"
             /\ contexts(fs[Head(refs).f].nodes, Head(refs).i) = <<>>
          THEN <<Plain(Head(refs))>> ELSE <<>>)
         \o SelectNoContexts(fs, Tail(refs))

(***************************************************************************)
(* Patches (node.py 286-303, 643-653).  A patch is one hunk                *)
(* [file, line, old, new]: at line `line` of the file the lines old are    *)
(* replaced by the lines new; NoPatch is the empty string.                 *)
(***************************************************************************)
NoPatch == [file |-> "", line |-> 0, old |-> <<>>, new |-> <<>>]

\* a token that no pattern matches
DoneToken_Unmatched(now) ==
    [Tok("text") EXCEPT !.n = DateOf(now),
                        !.tod = TimeOf(now) - (TimeOf(now) % SecPerMin)]

\* now.strftime('%Y-%m-%d %H:%M') inside the token (DONE ...)
DoneToken(now) ==
    [Tok("done") EXCEPT !.n = DateOf(now),
                        !.tod = TimeOf(now) - (TimeOf(now) % SecPerMin)]

\* DoableNode._PatchMarkDone (node.py 643-653); every other class has the
\* default diff function, the empty patch
_PatchMarkDone(fs, f, i, now) ==
    LET n == fs[f].nodes[i]
    IN IF IsDoable(n) /\ ~n.done
       THEN [file |-> f, line |-> n._line_in_file,
             old |-> <<n._raw_text[1]>>,
             new |-> <<[n._raw_text[1] EXCEPT !.tokens = Append(@, DoneToken(now))]>>]
       ELSE NoPatch

\* patch(1) on the lines of the file: the hunk applies where the file holds
\* the old lines at the hunk's place
Applies(lines, p) ==
    /\ p.line >= 1
    /\ p.line + Len(p.old) - 1 <= Len(lines)
    /\ \A k \in 1..Len(p.old) : lines[p.line + k - 1] = p.old[k]

Patched(lines, p) ==
    [k \in 1..Len(lines) |->
        IF k >= p.line /\ k < p.line + Len(p.new) THEN p.new[k - p.line + 1]
        ELSE lines[k]]

\* patch -R: the hunk with its old and its new lines exchanged
Reverse(p) == [p EXCEPT !.old = p.new, !.new = p.old]

\* now.strftime('%Y-%m-%d %H:%M') inside a LASTDONE token (node.py 665)
LastDoneToken(now) ==
    [Tok("lastdone") EXCEPT !.n = DateOf(now),
                            !.tod = TimeOf(now) - (TimeOf(now) % SecPerMin)]

\* updater (node.py 666-671): every LASTDONE token of the line gets the
\* current date and time
Updater(now, t) == IF t.k = "lastdone" THEN LastDoneToken(now) ELSE t

UpdatedLine(now, line) ==
    [line EXCEPT !.tokens = [k \in 1..Len(line.tokens) |->
                                Updater(now, line.tokens[k])]]

UpdatedLines(now, raw) == [k \in 1..Len(raw) |-> UpdatedLine(now, raw[k])]

\* new_lines[0] += ' (LASTDONE now)' for a new action (node.py 672-673)
WithLastDone(now, lines, state) ==
    IF state = "new"
    THEN [lines EXCEPT ![1].tokens = Append(@, LastDoneToken(now))]
    ELSE lines

\* the hunk of _PatchUpdateLastdone once DateState has returned
LastdoneHunk(f, n, now, ds) ==
    [patch |-> IF ds.state = "Raised" THEN NoPatch
               ELSE [file |-> f, line |-> n._line_in_file, old |-> n._raw_text,
                     new |-> WithLastDone(now, UpdatedLines(now, n._raw_text),
                                          ds.state)],
     nodes |-> ds.nodes,
     raised |-> ds.state = "Raised"]

\* DoableNode._PatchUpdateLastdone (node.py 655-677): the patch, the nodes
\* of the file after the call of DateState, whether the call raised
_PatchUpdateLastdone(fs, f, i, now) ==
    IF ~IsDoable(fs[f].nodes[i]) \/ fs[f].nodes[i].done
       \/ ~fs[f].nodes[i].recurring
    THEN [patch |-> NoPatch, nodes |-> fs[f].nodes, raised |-> FALSE]
    ELSE LastdoneHunk(f, fs[f].nodes[i], now, DateState(fs[f].nodes, i, now))

\* Node.Patch (node.py 286-303): _diff_functions[action](now)
Patch(action, fs, f, i, now) ==
    IF action = "MarkDONE"
    THEN [patch |-> _PatchMarkDone(fs, f, i, now), nodes |-> fs[f].nodes,
          raised |-> FALSE]
    ELSE _PatchUpdateLastdone(fs, f, i, now)

(***************************************************************************)
(* The state.                                                              *)
(*   disk           the files of the file system: name -> lines            *)
(*   mtime          os.path.getmtime of each file                          *)
(*   clock          the wall clock                                         *)
(*   files          TrustedSystem._files: registered name -> File          *)
(*   last_refreshed TrustedSystem.last_refreshed, None before Refresh      *)
(*   include, exclude   _contexts_to_include, _contexts_to_exclude         *)
(*   result         the last call and what it returned                     *)
(*   patch          the patch text last generated and not yet applied      *)
(***************************************************************************)
VARIABLES disk, mtime, clock, files, last_refreshed, include, exclude,
          result, patch

vars == <<disk, mtime, clock, files, last_refreshed, include, exclude,
          result, patch>>

MaxLines == 4
MaxBlockerLines == 3
MaxClock == 2

NoFiles == [f \in {} |-> 0]
NoResult == [op |-> "none", now |-> None, f |-> "", i |-> 0, out |-> <<>>,
             raised |-> FALSE]
Returned(op, now, out, raised) ==
    [op |-> op, now |-> now, f |-> "", i |-> 0, out |-> out, raised |-> raised]

\* the registered files that are not on disk
Missing(fs) == {f \in DOMAIN fs : f \notin DOMAIN disk}

\* File(file_name) (node.py 756-786): open() of a missing file raises the
\* IOError that File.__init__ catches, which leaves a File without children
\* and without bad lines
ReadFile(f) == IF f \in DOMAIN disk THEN File(f, disk[f]) ELSE File(f, <<>>)

\* a Refresh that also reads again the files written at last_refreshed
Refreshed_AtOrAfter(fs, force) ==
    [f \in DOMAIN fs |->
        IF force \/ (f \in DOMAIN disk /\ mtime[f] >= last_refreshed)
        THEN ReadFile(f) ELSE fs[f]]

\* TrustedSystem.Refresh (trusted_system.py 36-41): the files after it
Refreshed(fs, force) ==
    [f \in DOMAIN fs |->
        IF force \/ (f \in DOMAIN disk /\ mtime[f] > last_refreshed)
        THEN ReadFile(f) ELSE fs[f]]

\* the loop of Refresh left by the OSError of os.path.getmtime on a missing
\* file, after it has visited the files S
Interrupted(fs, S) ==
    [f \in DOMAIN fs |-> IF f \in S THEN Refreshed(fs, FALSE)[f] ELSE fs[f]]

\* self._files[file_name] = libvtd.node.File(file_name)
Added(fs, f) ==
    [g \in DOMAIN fs \cup {f} |-> IF g = f THEN ReadFile(f) ELSE fs[g]]

\* TrustedSystem.AddFile (trusted_system.py 16-26)
AddFile(f) ==
    /\ IF Missing(files) = {}
       THEN /\ files' = Added(Refreshed(files, FALSE), f)
            /\ last_refreshed' = clock
            /\ result' = NoResult
       ELSE /\ \E S \in SUBSET (DOMAIN files \ Missing(files)) :
                  files' = Interrupted(files, S)
            /\ last_refreshed' = last_refreshed
            /\ result' = Returned("AddFile", None, <<>>, TRUE)
    /\ UNCHANGED <<disk, mtime, clock, include, exclude, patch>>

\* TrustedSystem.Refresh (trusted_system.py 36-41)
Refresh(force) ==
    /\ IF force \/ Missing(files) = {}
       THEN /\ files' = Refreshed(files, force)
            /\ last_refreshed' = clock
            /\ result' = NoResult
       ELSE /\ \E S \in SUBSET (DOMAIN files \ Missing(files)) :
                  files' = Interrupted(files, S)
            /\ last_refreshed' = last_refreshed
            /\ result' = Returned("Refresh", None, <<>>, TRUE)
    /\ UNCHANGED <<disk, mtime, clock, include, exclude, patch>>

\* TrustedSystem.SetContexts (trusted_system.py 264-274)
SetContexts(inc, exc) ==
    /\ include' = inc
    /\ exclude' = exc
    /\ result' = NoResult
    /\ UNCHANGED <<disk, mtime, clock, files, last_refreshed, patch>>

\* a call of TrustedSystem.NextActions(now)
CallNextActions(now) ==
    /\ LET Return(r) ==
               /\ files' = r.fs
               /\ result' = Returned("NextActions", now, r.out, r.raised)
       IN Return(NextActions(files, now, include, exclude))
    /\ UNCHANGED <<disk, mtime, clock, last_refreshed, include, exclude, patch>>

\* a call of RecurringActions, Inboxes, AllActions or Waiting
CallListQuery(q, now) ==
    /\ LET Return(r) ==
               /\ files' = r.fs
               /\ result' = Returned(q, now, r.out, r.raised)
       IN Return(ListQuery(q, files, now, include, exclude))
    /\ UNCHANGED <<disk, mtime, clock, last_refreshed, include, exclude, patch>>

\* a call of TrustedSystem.ContextList(now) (trusted_system.py 67-88)
CallContextList(now) ==
    /\ LET Return(r) ==
               /\ files' = r.fs
               /\ IF r.raised
                  THEN result' = Returned("ContextList", now, <<>>, TRUE)
                  ELSE \E out \in MostCommon(r.fs, r.out) :
                          result' = Returned("ContextList", now, out, FALSE)
       IN Return(CollectAll("ContextList", <<>>, files, Walk(files), now,
                            include, exclude))
    /\ UNCHANGED <<disk, mtime, clock, last_refreshed, include, exclude, patch>>

\* a call of ProjectsWithoutNextActions or NextActionsWithoutContexts
CallParanoia(q) ==
    /\ result' = Returned(q, None,
                          IF q = "ProjectsWithoutNextActions"
                          THEN Plains(ProjectsWithoutNextActions(files))
                          ELSE SelectNoContexts(files, Walk(files)),
                          FALSE)
    /\ UNCHANGED <<disk, mtime, clock, files, last_refreshed, include, exclude,
                   patch>>

\* a call of node.DateState(now) on a doable node of the forest
CallDateState(f, i, now) ==
    /\ f \in DOMAIN files
    /\ i \in 1..Len(files[f].nodes)
    /\ IsDoable(files[f].nodes[i])
    /\ LET Return(ds) ==
               /\ files' = [files EXCEPT ![f].nodes = ds.nodes]
               /\ result' = [op |-> "DateState", now |-> now, f |-> f, i |-> i,
                             out |-> <<ds.state>>, raised |-> ds.state = "Raised"]
       IN Return(DateState(files[f].nodes, i, now))
    /\ UNCHANGED <<disk, mtime, clock, last_refreshed, include, exclude, patch>>

\* a call of node.Patch(Actions.MarkDONE, now) (node.py 286-303)
CallPatchMarkDONE(f, i, now) ==
    /\ f \in DOMAIN files
    /\ i \in 1..Len(files[f].nodes)
    /\ patch' = _PatchMarkDone(files, f, i, now)
    /\ result' = NoResult
    /\ UNCHANGED <<disk, mtime, clock, files, last_refreshed, include, exclude>>

\* the outer layer runs patch(1) with the generated patch on its file
ApplyPatch ==
    /\ patch # NoPatch
    /\ patch.file \in DOMAIN disk
    /\ disk' = IF Applies(disk[patch.file], patch)
               THEN [disk EXCEPT ![patch.file] = Patched(@, patch)]
               ELSE disk
    /\ mtime' = IF Applies(disk[patch.file], patch)
                THEN [mtime EXCEPT ![patch.file] = clock]
                ELSE mtime
    /\ patch' = NoPatch
    /\ result' = NoResult
    /\ UNCHANGED <<clock, files, last_refreshed, include, exclude>>

\* a call of node.Patch(action, now) (node.py 286-303)
CallPatch(action, f, i, now) ==
    /\ f \in DOMAIN files
    /\ i \in 1..Len(files[f].nodes)
    /\ LET Return(r) ==
               /\ patch' = r.patch
               /\ files' = [files EXCEPT ![f].nodes = r.nodes]
               /\ result' = [op |-> action, now |-> now, f |-> f, i |-> i,
                             out |-> <<>>, raised |-> r.raised]
       IN Return(Patch(action, files, f, i, now))
    /\ UNCHANGED <<disk, mtime, clock, last_refreshed, include, exclude>>

\* the outer layer runs patch(1), or patch -R, with the patch text it holds
RunPatch(reverse) ==
    /\ patch # NoPatch
    /\ patch.file \in DOMAIN disk
    /\ LET Run(p) ==
               /\ Applies(disk[p.file], p)
               /\ disk' = [disk EXCEPT ![p.file] = Patched(@, p)]
               /\ mtime' = [mtime EXCEPT ![p.file] = clock]
       IN Run(IF reverse THEN Reverse(patch) ELSE patch)
    /\ UNCHANGED <<clock, files, last_refreshed, include, exclude, result,
                   patch>>

\* a call of node.AbsorbText(line) (node.py 222-252) on a node of the forest
CallAbsorbText(f, i, line) ==
    /\ f \in DOMAIN files
    /\ i \in 1..Len(files[f].nodes)
    /\ LET Return(r) ==
               /\ files' = [files EXCEPT ![f].nodes[i] = r.n]
               /\ result' = [op |-> IF r.ok THEN "AbsorbText:True"
                                    ELSE "AbsorbText:False",
                             now |-> None, f |-> f, i |-> i, out |-> <<line>>,
                             raised |-> FALSE]
       IN Return(AbsorbText(files[f].nodes[i], line.tokens, line.words, line))
    /\ UNCHANGED <<disk, mtime, clock, last_refreshed, include, exclude, patch>>

\* the file system: a file is removed
Unlink(f) ==
    /\ f \in DOMAIN disk
    /\ disk' = [g \in DOMAIN disk \ {f} |-> disk[g]]
    /\ mtime' = [g \in DOMAIN disk \ {f} |-> mtime[g]]
    /\ UNCHANGED <<clock, files, last_refreshed, include, exclude, result,
                   patch>>

\* the file system: a file is written
WriteFile(f, lines) ==
    /\ disk' = [g \in DOMAIN disk \cup {f} |-> IF g = f THEN lines ELSE disk[g]]
    /\ mtime' = [g \in DOMAIN disk \cup {f} |-> IF g = f THEN clock ELSE mtime[g]]
    /\ UNCHANGED <<clock, files, last_refreshed, include, exclude, result,
                   patch>>

\* the wall clock moves on
Tick ==
    /\ clock < MaxClock
    /\ clock' = clock + 1
    /\ UNCHANGED <<disk, mtime, files, last_refreshed, include, exclude,
                   result, patch>>

(***************************************************************************)
(* Inputs.  A line is its sigil, its indentation, its special tokens and   *)
(* its words.                                                              *)
(***************************************************************************)
Ln(sigil, indent, tokens) ==
    [sigil |-> sigil, indent |-> indent, level |-> 1, tokens |-> tokens,
     words |-> <<"w">>]

TokS(k, s) == [Tok(k) EXCEPT !.s = s]

SeqsUpTo(S, n) == UNION {[1..k -> S] : k \in 0..n}

Noon == At(2013, 9, 10, 12, 0)

\* outline lines of ordered and unordered projects with their actions
ProjectLines ==
    {Ln("#", 0, <<>>), Ln("-", 0, <<>>), Ln("@", 2, <<>>)}

\* the state after TrustedSystem.__init__ (trusted_system.py 11-14), with
\* one file on disk
Init ==
    /\ disk \in [{"a.vtd"} -> SeqsUpTo(ProjectLines, MaxLines)]
    /\ mtime = [f \in DOMAIN disk |-> 0]
    /\ clock = 1
    /\ files = NoFiles
    /\ last_refreshed = None
    /\ include = {}
    /\ exclude = {}
    /\ result = NoResult
    /\ patch = NoPatch

\* the state after AddFile of every file on disk
Loaded ==
    /\ mtime = [f \in DOMAIN disk |-> 0]
    /\ clock = 1
    /\ files = [f \in DOMAIN disk |-> File(f, disk[f])]
    /\ last_refreshed = clock
    /\ include = {}
    /\ exclude = {}
    /\ result = NoResult
    /\ patch = NoPatch

Next ==
    \/ \E f \in DOMAIN disk : AddFile(f)
    \/ \E force \in BOOLEAN : Refresh(force)
    \/ CallNextActions(Noon)
    \/ \E f \in DOMAIN files : \E i \in 1..Len(files[f].nodes) :
          CallPatchMarkDONE(f, i, Noon)
    \/ ApplyPatch
    \/ Tick

Spec == Init /\ [][Next]_vars

(***************************************************************************)
(* Recurring actions: one NextAction "EVERY [min-]max unit [vis - due]     *)
(* (LASTDONE date time)" in a registered file, asked for its DateState.    *)
(***************************************************************************)
Bd(day, tod) == [given |-> TRUE, day |-> day, tod |-> tod]
HM(h, m) == h * SecPerHour + m * SecPerMin

\* unit, visible sub-boundary, due boundary
RecurShapes ==
    {[unit |-> "day", vis |-> Bd(None, HM(9, 0)), due |-> Bd(None, HM(17, 0))],
     [unit |-> "day", vis |-> Bd(None, HM(20, 0)), due |-> Bd(None, HM(8, 0))],
     [unit |-> "week", vis |-> Bd(0, HM(12, 0)), due |-> Bd(1, HM(7, 0))],
     [unit |-> "week", vis |-> Bd(4, HM(9, 0)), due |-> Bd(4, HM(17, 0))],
     [unit |-> "week", vis |-> Bd(5, None), due |-> Bd(0, None)],
     [unit |-> "month", vis |-> Bd(7, None), due |-> Bd(10, None)],
     [unit |-> "month", vis |-> Bd(1, HM(9, 0)), due |-> Bd(3, None)],
     [unit |-> "month", vis |-> Bd(0 - 3, HM(8, 0)), due |-> Bd(0, HM(18, 0))]}

\* [min-]max
RecurCounts == {<<None, None>>, <<None, 2>>, <<1, 2>>}

LastDoneDays == DaysFromCivil(2013, 8, 28) .. DaysFromCivil(2013, 9, 10)
LastDoneTimes == {0, HM(7, 30), HM(9, 0), HM(12, 0), HM(22, 0)}

RecurLine(shape, counts, day, tod) ==
    Ln("@", 0,
       <<[Tok("recur") EXCEPT !.n = counts[1], !.m = counts[2],
                              !.unit = shape.unit, !.vis = shape.vis,
                              !.due = shape.due],
         [Tok("lastdone") EXCEPT !.n = day, !.tod = tod]>>)

\* the time of day of a boundary: as written, else the end of the day for a
\* due boundary and its start for a visible one
BoundaryTime(b, due) ==
    IF b.tod # None THEN b.tod ELSE IF due THEN EndOfDay ELSE 0

\* whether the boundary b of the unit falls on the day
OnBoundaryDay(unit, b, day) ==
    CASE unit = "day" -> TRUE
      [] unit = "week" -> WeekdayOf(day) = b.day
      [] unit = "month" ->
            IF b.day >= 1 THEN day = FirstOfMonth(day) + b.day - 1
            ELSE day = FirstOfMonth(AddMonthsDate(day, 1)) - 1 + b.day

\* a stretch of days that holds a boundary of every unit
ScanDays == 32

\* the boundary instants around the instant t: two before it, one after
Boundaries(unit, b, due, t) ==
    {Combine(day, BoundaryTime(b, due)) :
        day \in {x \in (DateOf(t) - 2 * ScanDays)..(DateOf(t) + ScanDays) :
                    OnBoundaryDay(unit, b, x)}}

SetMax(S) == CHOOSE x \in S : \A y \in S : y <= x
SetMin(S) == CHOOSE x \in S : \A y \in S : x <= y

\* the recurring action of the file a.vtd
TheAction == files["a.vtd"].nodes[1]
VisBoundaries(n) ==
    Boundaries(n._recur_unit, n._recur_subunit_visible, FALSE, n.last_done)
DueBoundaries(n) ==
    Boundaries(n._recur_unit, n._recur_unit_boundary, TRUE, n.last_done)
NextVisible(n) == SetMin({v \in VisBoundaries(n) : v > n.last_done})

\* the instants at which the action is asked for its state
RecurNows(n) ==
    LET v == NextVisible(n)
    IN {n.last_done, n.last_done + SecPerHour, v - SecPerMin, v, v + SecPerHour}

InitRecur ==
    /\ \E shape \in RecurShapes, counts \in RecurCounts,
          day \in LastDoneDays, tod \in LastDoneTimes :
          disk = [f \in {"a.vtd"} |-> <<RecurLine(shape, counts, day, tod)>>]
    /\ Loaded

NextRecur == \E now \in RecurNows(TheAction) : CallDateState("a.vtd", 1, now)

SpecRecur == InitRecur /\ [][NextRecur]_vars

\* the last due boundary before last_done, and the visible boundary that
\* opened the interval it closed
LastDue(n) == SetMax({d \in DueBoundaries(n) : d < n.last_done})
IntervalVisible(n) ==
    LET d == LastDue(n) IN SetMax({v \in VisBoundaries(n) : v < d})
NextDue(n) == SetMin({d \in DueBoundaries(n) : d > n.last_done})

\* last_done lies after a due boundary and before the next visible boundary
DoneLate(n) ==
    /\ n.recurring /\ n.last_done # None /\ n._recur_subunit_visible.given
    /\ LET d == LastDue(n)
       IN \A v \in VisBoundaries(n) : ~(d <= v /\ v <= n.last_done)

\* instants between the visible and the due boundary of that interval
OnTime(n) ==
    LET v == IntervalVisible(n)
        d == LastDue(n)
    IN {t \in {v + SecPerHour, d - SecPerMin} : v < t /\ t < d}

Dates(n) == <<n._visible_date, n._ready_date, n._due_date>>

\* C4: a recurring action with a visible sub-boundary whose LASTDONE lies
\* after a due boundary and before the next visible boundary gets the same
\* visible, ready and due dates as when it was done between the visible and
\* the due boundary of the interval that just ended; for "EVERY unit" these
\* are the very next visible and due boundaries, so no interval is skipped.
C4_LateDoneCountsForEndedInterval ==
    (result.op = "DateState" /\ DoneLate(TheAction)) =>
        /\ ~result.raised
        /\ \A t \in OnTime(TheAction) :
              LET ref == _SetRecurringDates([TheAction EXCEPT !.last_done = t])
              IN ~ref.raised /\ Dates(ref.n) = Dates(TheAction)
        /\ (TheAction._recur_min = 1 /\ TheAction._recur_max = 1) =>
              /\ TheAction._visible_date = NextVisible(TheAction)
              /\ TheAction._due_date = NextDue(TheAction)

C4_Witness ==
    /\ result.op = "DateState" /\ DoneLate(TheAction)
    /\ OnTime(TheAction) # {}
    /\ TheAction._recur_unit = "month"
    /\ result.now = NextVisible(TheAction)
    /\ result.out = <<"due">>

\* last_done is the very instant at which an interval became visible
DoneAtVisibleBoundary(n) ==
    /\ n.recurring /\ n.last_done # None /\ n._recur_subunit_visible.given
    /\ n._recur_min = 1 /\ n._recur_max = 1
    /\ n.last_done \in VisBoundaries(n)

\* C5: a recurring action "EVERY unit [vis - due]" whose LASTDONE is exactly
\* the instant at which its interval became visible is invisible from that
\* instant up to the next visible boundary, and due at that boundary.
C5_DoneAtStartOfInterval ==
    (result.op = "DateState" /\ DoneAtVisibleBoundary(TheAction)) =>
        /\ ~result.raised
        /\ (TheAction.last_done <= result.now
            /\ result.now < NextVisible(TheAction)) =>
              result.out = <<"invisible">>
        /\ result.now = NextVisible(TheAction) => result.out = <<"due">>

(***************************************************************************)
(* Dates and priorities along a chain of parents: a project, a project in  *)
(* it, an action in that, each asked for its DateState.                    *)
(***************************************************************************)
DueTok(day, tod, lead) == [Tok("due") EXCEPT !.n = day, !.tod = tod, !.m = lead]
VisTok(day, tod) == [Tok("vis") EXCEPT !.n = day, !.tod = tod]
PrioTok(p) == [Tok("prio") EXCEPT !.n = p]
EveryDay == [Tok("recur") EXCEPT !.unit = "day"]
Sep(d) == DaysFromCivil(2013, 9, d)

\* what a line of the chain may carry: due dates (with the days of lead
\* time of the ready date), visible dates, priorities, a recurrence
DateTokens ==
    {<<>>,
     <<DueTok(Sep(10), HM(12, 0), None)>>,
     <<DueTok(Sep(12), HM(12, 0), 3)>>,
     <<VisTok(Sep(9), HM(12, 0))>>,
     <<VisTok(Sep(11), None)>>,
     <<PrioTok(0)>>,
     <<DueTok(Sep(12), None, None), VisTok(Sep(9), HM(12, 0)), PrioTok(2)>>,
     <<EveryDay, DueTok(Sep(10), HM(12, 0), None)>>}

Chain(t1, t2, t3) == <<Ln("-", 0, t1), Ln("-", 2, t2), Ln("@", 4, t3)>>

InitDates ==
    /\ \E t1 \in DateTokens, t2 \in DateTokens, t3 \in DateTokens :
          disk = [f \in {"a.vtd"} |-> Chain(t1, t2, t3)]
    /\ Loaded

\* the dates the nodes of the files set, None left out
DatesIn(fs) ==
    UNION {UNION {{n._due_date, n._ready_date, n._visible_date} :
                     n \in Range(fs[f].nodes)} : f \in DOMAIN fs} \ {None}

\* the instants at which the nodes are asked: noon of 10 September 2013,
\* every date of the files, the day before and the day after
DateNows(fs) ==
    {Noon} \cup UNION {{d - SecPerDay, d, d + SecPerDay} : d \in DatesIn(fs)}

NextDates ==
    \E f \in DOMAIN files : \E i \in 1..Len(files[f].nodes) :
        \E now \in DateNows(files) : CallDateState(f, i, now)

SpecDates == InitDates /\ [][NextDates]_vars

(***************************************************************************)
(* Queries on registered files, drawn from two families of outlines:       *)
(* blockers and completion, contexts.                                      *)
(***************************************************************************)
\* projects and actions with ids, blockers and completion markers
BlockerLines ==
    {Ln("-", 0, <<>>), Ln("-", 0, <<TokS("after", "x")>>),
     Ln("@", 0, <<TokS("id", "x")>>),
     Ln("@", 0, <<TokS("id", "x"), Tok("done")>>),
     Ln("@", 2, <<>>), Ln("@", 2, <<TokS("after", "x")>>),
     Ln("@", 2, <<TokS("after", "y")>>), Ln("*", 2, <<>>)}

\* a second file that may carry the id x
OtherFiles ==
    {<<>>, <<Ln("@", 0, <<TokS("id", "x")>>)>>,
     <<Ln("@", 0, <<TokS("id", "x"), Tok("done")>>)>>}

ContextTokens ==
    {<<>>,
     <<TokS("ctx", "home")>>,
     <<TokS("cancel", "home")>>,
     <<TokS("ctx", "work"), TokS("ctx", "home")>>,
     <<TokS("ctx", "home"), TokS("ctx", "waiting")>>,
     <<TokS("ctx", "work"), Tok("done")>>,
     <<TokS("ctx", "home"), VisTok(Sep(11), None)>>}

\* a project with two actions
Pair(t1, t2, t3) == <<Ln("-", 0, t1), Ln("@", 2, t2), Ln("@", 2, t3)>>

QueryDisks ==
    {[f \in {"a.vtd", "b.vtd"} |-> IF f = "a.vtd" THEN a ELSE b] :
        a \in SeqsUpTo(BlockerLines, MaxBlockerLines), b \in OtherFiles}
    \cup {[f \in {"a.vtd"} |-> Chain(t[1], t[2], t[3])] :
            t \in ContextTokens \X ContextTokens \X ContextTokens}
    \cup {[f \in {"a.vtd"} |-> Pair(t[1], t[2], t[3])] :
            t \in ContextTokens \X ContextTokens \X ContextTokens}

InitQuery == disk \in QueryDisks /\ Loaded

\* the contexts the nodes of the files declare
ContextsIn(fs) ==
    UNION {UNION {Range(n._contexts) : n \in Range(fs[f].nodes)} :
              f \in DOMAIN fs}

ContextFilters == {<<{}, {}>>, <<{"home"}, {}>>, <<{}, {"home"}>>}

NextQuery ==
    \/ \E c \in ContextFilters :
          c[1] \cup c[2] \subseteq ContextsIn(files) /\ SetContexts(c[1], c[2])
    \/ CallNextActions(Noon)
    \/ CallListQuery("AllActions", Noon)
    \/ CallContextList(Noon)

SpecQuery == InitQuery /\ [][NextQuery]_vars

(***************************************************************************)
(* Patches: a file of plain and recurring actions, the patches of its      *)
(* nodes, patch(1) and patch -R, and the queries after Refresh(force=True).*)
(***************************************************************************)
EveryWeek ==
    [unit |-> "week", vis |-> Bd(0, HM(12, 0)), due |-> Bd(1, HM(7, 0))]

PatchLines ==
    {Ln("@", 0, <<>>), Ln("#", 0, <<>>), Ln("", 2, <<>>),
     Ln("@", 0, <<[Tok("recur") EXCEPT !.unit = "day"]>>),
     Ln("@", 0, <<[Tok("recur") EXCEPT !.unit = "week", !.vis = EveryWeek.vis,
                                       !.due = EveryWeek.due]>>),
     RecurLine(EveryWeek, <<None, None>>, DaysFromCivil(2013, 9, 1), HM(22, 0)),
     RecurLine(EveryWeek, <<None, None>>, DaysFromCivil(2013, 9, 1), None),
     RecurLine([unit |-> "day", vis |-> Bd(None, HM(9, 0)),
                due |-> Bd(None, HM(17, 0))],
               <<None, None>>, DaysFromCivil(2013, 9, 8), HM(9, 30))}

\* the files: an action, an action with a continuation line, a project
\* with an action
PatchFiles ==
    {<<l>> : l \in PatchLines \ {Ln("", 2, <<>>)}}
    \cup {<<l, Ln("", 2, <<>>)>> : l \in PatchLines \ {Ln("", 2, <<>>)}}
    \cup {<<Ln("#", 0, <<>>), Ln("@", 2, <<>>)>>}

\* the instants of the calls: inside an interval, on the visible boundary
\* of a week (Monday 2013-09-09 12:00), half a minute after it, on the
\* visible boundary of a day
PatchNows ==
    {At(2013, 9, 10, 8, 0), At(2013, 9, 9, 12, 0), At(2013, 9, 9, 12, 0) + 30,
     At(2013, 9, 10, 9, 0)}

InitPatch ==
    /\ disk \in [{"a.vtd"} -> PatchFiles]
    /\ Loaded

\* the tree of the file was read from the lines now on disk
Fresh(f) ==
    /\ f \in DOMAIN files
    /\ files[f].bad_lines = File(f, disk[f]).bad_lines
    /\ Len(files[f].nodes) = Len(File(f, disk[f]).nodes)
    /\ \A k \in 1..Len(files[f].nodes) :
          files[f].nodes[k]._raw_text = File(f, disk[f]).nodes[k]._raw_text

\* the caller asks for patches and lists after Refresh(force=True)
NextPatch ==
    \/ \E f \in DOMAIN files : \E i \in 1..Len(files[f].nodes) :
          /\ Fresh(f)
          /\ \/ CallPatch("MarkDONE", f, i, Noon)
             \/ \E now \in PatchNows : CallPatch("UpdateLASTDONE", f, i, now)
    \/ \E reverse \in BOOLEAN : RunPatch(reverse)
    \/ Refresh(TRUE)
    \/ \E now \in PatchNows :
          /\ Fresh("a.vtd")
          /\ \/ CallNextActions(now)
             \/ CallListQuery("RecurringActions", now)

SpecPatch == InitPatch /\ [][NextPatch]_vars

(***************************************************************************)
(* Refresh: two files on disk, registered, patched and read again at two   *)
(* values of the clock.                                                    *)
(***************************************************************************)
RefreshFiles ==
    {<<Ln("@", 0, <<>>)>>, <<Ln("@", 0, <<>>), Ln("@", 0, <<>>)>>}

InitRefresh ==
    /\ disk \in [{"a.vtd", "b.vtd"} -> RefreshFiles]
    /\ mtime = [f \in DOMAIN disk |-> 0]
    /\ clock = 1
    /\ files = NoFiles
    /\ last_refreshed = None
    /\ include = {}
    /\ exclude = {}
    /\ result = NoResult
    /\ patch = NoPatch

SpecRefresh == InitRefresh /\ [][Next]_vars

(***************************************************************************)
(* Files that are not there: names registered with and without a file on   *)
(* disk, files removed and written.                                        *)
(***************************************************************************)
Names == {"a.vtd", "b.vtd"}

OneAction == <<Ln("@", 0, <<>>)>>

InitMissing ==
    /\ \E S \in SUBSET Names : disk = [f \in S |-> OneAction]
    /\ mtime = [f \in DOMAIN disk |-> 0]
    /\ clock = 1
    /\ files = NoFiles
    /\ last_refreshed = None
    /\ include = {}
    /\ exclude = {}
    /\ result = NoResult
    /\ patch = NoPatch

NextMissing ==
    \/ \E f \in Names : AddFile(f)
    \/ \E force \in BOOLEAN : Refresh(force)
    \/ \E f \in Names : Unlink(f)
    \/ \E f \in Names : WriteFile(f, OneAction)
    \/ CallNextActions(Noon)
    \/ Tick

SpecMissing == InitMissing /\ [][NextMissing]_vars

(***************************************************************************)
(* Parsing: files of nodes, blank lines and continuation lines, and calls  *)
(* of AbsorbText on the nodes.                                             *)
(***************************************************************************)
Lw(sigil, indent, tokens, words) ==
    [sigil |-> sigil, indent |-> indent, level |-> 1, tokens |-> tokens,
     words |-> words]

BlankLine == Lw("", 0, <<>>, <<>>)

\* a token whose date is not on the calendar, such as 2013-06-31
NoSuchDate(k) == [Tok(k) EXCEPT !.ok = FALSE]

Home == TokS("ctx", "home")
Due629 == [Tok("due") EXCEPT !.n = DaysFromCivil(2013, 6, 29), !.tod = HM(18, 59)]

\* the lines of the files: an action, an action whose line holds tokens
\* only, a project, a section, a comment, a blank line, text that is not
\* indented and text that is
ParseLinesIn ==
    {Lw("@", 2, <<>>, <<"w">>), Lw("@", 2, <<Home>>, <<>>),
     Lw("#", 0, <<>>, <<"w">>), Lw("=", 0, <<>>, <<"w">>),
     Lw("*", 2, <<>>, <<"w">>), BlankLine,
     Lw("", 0, <<>>, <<"w">>), Lw("", 4, <<Home>>, <<"w">>)}

\* the lines given to AbsorbText
AbsorbLines ==
    {BlankLine, Lw("", 0, <<>>, <<"w">>), Lw("", 2, <<Home>>, <<"w">>),
     Lw("", 4, <<PrioTok(1)>>, <<"w">>),
     Lw("", 4, <<NoSuchDate("due"), Due629>>, <<"w">>),
     Lw("", 4, <<NoSuchDate("vis"), Home>>, <<"w">>),
     Lw("", 4, <<NoSuchDate("lastdone")>>, <<"w">>),
     Lw("", 4, <<NoSuchDate("done")>>, <<"w">>)}

MaxParseLines == 2
MaxRawText == 2

InitParse ==
    /\ disk \in [{"a.vtd"} -> SeqsUpTo(ParseLinesIn, MaxParseLines)]
    /\ Loaded

NextParse ==
    \/ Refresh(TRUE)
    \/ \E f \in DOMAIN files : \E i \in 1..Len(files[f].nodes) :
          \E line \in AbsorbLines :
             /\ Len(files[f].nodes[i]._raw_text) < MaxRawText
             /\ CallAbsorbText(f, i, line)

SpecParse == InitParse /\ [][NextParse]_vars

(***************************************************************************)
(* Nesting: files of sections of two depths and of projects, actions and   *)
(* comments at two indentations.                                           *)
(***************************************************************************)
NestLines ==
    {Lw("=", 0, <<>>, <<"w">>), [Lw("=", 0, <<>>, <<"w">>) EXCEPT !.level = 2],
     Lw("#", 0, <<>>, <<"w">>), Lw("#", 2, <<>>, <<"w">>),
     Lw("@", 0, <<>>, <<"w">>), Lw("@", 2, <<>>, <<"w">>),
     Lw("*", 0, <<>>, <<"w">>), Lw("*", 2, <<>>, <<"w">>)}

MaxNestLines == 3

InitNest ==
    /\ disk \in [{"a.vtd"} -> SeqsUpTo(NestLines, MaxNestLines)]
    /\ mtime = [f \in DOMAIN disk |-> 0]
    /\ clock = 1
    /\ files = NoFiles
    /\ last_refreshed = None
    /\ include = {}
    /\ exclude = {}
    /\ result = NoResult
    /\ patch = NoPatch

NextNest ==
    \/ \E f \in DOMAIN disk : AddFile(f)
    \/ \E force \in BOOLEAN : Refresh(force)
    \/ Tick

SpecNest == InitNest /\ [][NextNest]_vars

(***************************************************************************)
(* Every public query, on no file and on files of plain, waiting, inbox    *)
(* and recurring actions.                                                  *)
(***************************************************************************)
PublicLines ==
    {Ln("@", 0, <<>>), Ln("#", 0, <<>>),
     Ln("@", 0, <<TokS("ctx", "waiting")>>),
     Ln("@", 0, <<TokS("ctx", "inbox")>>),
     RecurLine(EveryWeek, <<None, None>>, DaysFromCivil(2013, 9, 1), HM(22, 0)),
     RecurLine(EveryWeek, <<None, None>>, DaysFromCivil(2013, 9, 9), HM(12, 0))}

MaxPublicLines == 2

ListQueries == {"RecurringActions", "Inboxes", "AllActions", "Waiting"}
ParanoiaQueries == {"ProjectsWithoutNextActions", "NextActionsWithoutContexts"}
PublicQueries ==
    {"NextActions", "ContextList"} \cup ListQueries \cup ParanoiaQueries

PublicNows == {Noon, At(2013, 9, 9, 12, 0)}

InitPublic ==
    /\ disk \in [{"a.vtd"} -> SeqsUpTo(PublicLines, MaxPublicLines)]
    /\ mtime = [f \in DOMAIN disk |-> 0]
    /\ clock = 1
    /\ files = NoFiles
    /\ last_refreshed = None
    /\ include = {}
    /\ exclude = {}
    /\ result = NoResult
    /\ patch = NoPatch

NextPublic ==
    \/ \E f \in DOMAIN disk : AddFile(f)
    \/ \E now \in PublicNows :
          \/ CallNextActions(now)
          \/ \E q \in ListQueries : CallListQuery(q, now)
          \/ CallContextList(now)
    \/ \E q \in ParanoiaQueries : CallParanoia(q)

SpecPublic == InitPublic /\ [][NextPublic]_vars

(***************************************************************************)
(* Blocking and ordered projects.                                          *)
(***************************************************************************)
\* the node and its ancestors
RECURSIVE ChainOf(_, _)
ChainOf(nodes, i) ==
    IF i = 0 THEN {} ELSE {i} \cup ChainOf(nodes, nodes[i].parent)

\* the ids carried by a node of a registered file that is not done
OpenIds(fs) ==
    UNION {UNION {Range(n.ids) : n \in {m \in Range(fs[f].nodes) :
                                          IsDoable(m) /\ ~m.done}} :
              f \in DOMAIN fs}

\* the node or one of its ancestors names, as a blocker, an id carried by a
\* node that is not done
HasOpenBlocker(fs, f, i) ==
    \E a \in ChainOf(fs[f].nodes, i) :
        /\ IsDoable(fs[f].nodes[a])
        /\ Range(fs[f].nodes[a].blockers) \cap OpenIds(fs) # {}

\* NextActions has returned no action with an open blocker on its chain
NoneReturnedBlocked ==
    result.op = "NextActions" =>
        /\ ~result.raised
        /\ \A k \in 1..Len(result.out) :
              ~result.out[k].stub =>
                  ~HasOpenBlocker(files, result.out[k].f, result.out[k].i)

Children(nodes, p) == {j \in 1..Len(nodes) : nodes[j].parent = p}
OpenChildren(nodes, p) == {j \in Children(nodes, p) : ~nodes[j].done}

\* the ordered projects of the claim: directly in the file, not done, their
\* children NextActions
OrderedChains(nodes) ==
    {p \in 1..Len(nodes) :
        /\ nodes[p].type = "Project" /\ nodes[p].ordered /\ ~nodes[p].done
        /\ nodes[p].parent = 0
        /\ Children(nodes, p) # {}
        /\ \A j \in Children(nodes, p) : nodes[j].type = "NextAction"}

\* the first of a set of node indices, as a set
First(S) == {j \in S : \A k \in S : j <= k}

\* the children of nodes[p] in a result of NextActions
ReturnedUnder(out, f, nodes, p) ==
    {out[k].i : k \in {m \in 1..Len(out) :
                         /\ out[m].f = f /\ ~out[m].stub
                         /\ nodes[out[m].i].parent = p}}

\* the registered file holds what is on disk
InSync(f) == f \in DOMAIN files /\ files[f] = File(f, disk[f])

\* C2: of the children of an ordered project NextActions returns exactly the
\* first that is not done; and when the MarkDONE patch of that child is
\* applied to the file and the file read again, NextActions returns exactly
\* the next child that is not done
C2_OrderedProjectChain ==
    /\ result.op = "NextActions" =>
          /\ ~result.raised
          /\ \A f \in DOMAIN files : \A p \in OrderedChains(files[f].nodes) :
                ReturnedUnder(result.out, f, files[f].nodes, p)
                    = First(OpenChildren(files[f].nodes, p))
    /\ (patch # NoPatch /\ InSync(patch.file)) =>
          \A p \in OrderedChains(files[patch.file].nodes) :
              \A c \in First(OpenChildren(files[patch.file].nodes, p)) :
                  files[patch.file].nodes[c]._line_in_file = patch.line =>
                      ReturnedUnder(
                          NextActions([files EXCEPT ![patch.file] =
                                          File(patch.file,
                                               Patched(disk[patch.file], patch))],
                                      Noon, include, exclude).out,
                          patch.file, files[patch.file].nodes, p)
                      = First(OpenChildren(files[patch.file].nodes, p) \ {c})

\* two children checked off by patches, the file read again, and NextActions
\* has returned the third child only
C2_Witness ==
    /\ result.op = "NextActions"
    /\ InSync("a.vtd")
    /\ Len(disk["a.vtd"]) = 4
    /\ disk["a.vtd"][1].sigil = "#"
    /\ disk["a.vtd"][2].tokens = <<DoneToken(Noon)>>
    /\ disk["a.vtd"][3].tokens = <<DoneToken(Noon)>>
    /\ result.out = <<Plain([f |-> "a.vtd", i |-> 4])>>

(***************************************************************************)
(* Dates and inheritance.                                                  *)
(***************************************************************************)
\* the state the switch of the claim gives for the effective dates
Switch(vis, due, ready, now) ==
    IF vis # None /\ now < vis THEN "invisible"
    ELSE IF due = None THEN "ready"
    ELSE IF due < now THEN "late"
    ELSE IF ready # None /\ ready < now THEN "due"
    ELSE "ready"

\* C3: DateState(now) of a node that does not recur is invisible before the
\* effective visible date, else ready without an effective due date, else
\* late after the due date, else due after the ready date, else ready; of a
\* recurring node without last_done it is new
C3_DateStateSwitch ==
    result.op = "DateState" =>
        LET nodes == files[result.f].nodes
            n == nodes[result.i]
        IN /\ (n.recurring /\ n.last_done = None) => result.out = <<"new">>
           /\ ~n.recurring =>
                 /\ ~result.raised
                 /\ result.out = <<Switch(visible_date(nodes, result.i),
                                          due_date(nodes, result.i),
                                          ready_date(nodes, result.i),
                                          result.now)>>

\* a node without dates of its own, asked at the very instant of the due
\* date it inherits, is due and not yet late
C3_Witness ==
    /\ result.op = "DateState"
    /\ ~files[result.f].nodes[result.i].recurring
    /\ files[result.f].nodes[result.i]._due_date = None
    /\ due_date(files[result.f].nodes, result.i) = result.now
    /\ result.out = <<"due">>

\* the values a chain sets, None left out
Set(S) == S \ {None}

\* C7: the effective priority of a node is that of the nearest node of its
\* parent chain which sets one, 0 included; the effective due and ready
\* dates are the least, the effective visible date the greatest, of those
\* set along the chain; each is None only when no node of the chain sets it
C7_Inheritance ==
    \A f \in DOMAIN files : \A i \in 1..Len(files[f].nodes) :
        LET nodes == files[f].nodes
            chain == ChainOf(nodes, i)
            setters == {a \in chain : nodes[a]._priority # None}
            dues == Set({nodes[a]._due_date : a \in chain})
            readies == Set({nodes[a]._ready_date : a \in chain})
            visibles == Set({nodes[a]._visible_date : a \in chain})
        IN /\ priority(nodes, i) =
                 IF setters = {} THEN None ELSE nodes[SetMax(setters)]._priority
           /\ due_date(nodes, i) = IF dues = {} THEN None ELSE SetMin(dues)
           /\ ready_date(nodes, i) =
                 IF readies = {} THEN None ELSE SetMin(readies)
           /\ visible_date(nodes, i) =
                 IF visibles = {} THEN None ELSE SetMax(visibles)

\* an action takes priority 0 from its project and not 2 from the project
\* above, the due date from the project above, and its own visible date,
\* which is later than the one above; asked for its state, it is invisible
C7_Witness ==
    /\ result.op = "DateState" /\ result.i = 3
    /\ result.out = <<"invisible">>
    /\ LET nodes == files[result.f].nodes
       IN /\ nodes[3]._priority = None /\ nodes[2]._priority = 0
          /\ nodes[1]._priority = 2 /\ priority(nodes, 3) = 0
          /\ nodes[3]._due_date = None /\ nodes[2]._due_date = None
          /\ due_date(nodes, 3) = nodes[1]._due_date
          /\ nodes[1]._visible_date # None
          /\ nodes[3]._visible_date > nodes[1]._visible_date
          /\ visible_date(nodes, 3) = nodes[3]._visible_date

(***************************************************************************)
(* Contexts and the lists of the queries.                                  *)
(***************************************************************************)
\* the contexts declared, and those canceled, along the chain of a node
DeclaredAlong(nodes, i) ==
    UNION {Range(nodes[a]._contexts) : a \in ChainOf(nodes, i)}
CanceledAlong(nodes, i) ==
    UNION {Range(nodes[a]._canceled_contexts) : a \in ChainOf(nodes, i)}

Refs(out) == {out[k] : k \in 1..Len(out)}

\* C8 as stated: AllActions returns, besides the actions, a stub for every
\* project without a next action that is visible, not blocked and passes
\* the context filter
C8_AllActionsHasStubs ==
    result.op = "AllActions" =>
        /\ ~result.raised
        /\ \A r \in Refs(ProjectsWithoutNextActions(files)) :
              (/\ DateState(files[r.f].nodes, r.i, result.now).state # "invisible"
               /\ ~_Blocked(files, r.f, r.i)
               /\ _OkContexts(files, r.f, r.i, include, exclude))
              => Stub(r) \in Refs(result.out)

\* the NextActions that ContextList counts: visible at now and not waiting
Counted(fs, now) ==
    UNION {{[f |-> f, i |-> i] :
               i \in {j \in 1..Len(fs[f].nodes) :
                        /\ _VisibleAction(fs, f, j, now).v
                        /\ ~fs[f].nodes[j].waiting}} : f \in DOMAIN fs}

\* C9 as stated: ContextList pairs a context with the number of counted
\* actions whose effective contexts contain it, and lists no other context
C9_CountsEachActionOnce ==
    result.op = "ContextList" =>
        /\ ~result.raised
        /\ \A c \in ContextsIn(files) :
              LET n == Cardinality({r \in Counted(files, result.now) :
                                      c \in Range(contexts(files[r.f].nodes, r.i))})
                  pairs == {k \in 1..Len(result.out) : result.out[k][1] = c}
              IN IF n = 0 THEN pairs = {}
                 ELSE /\ Cardinality(pairs) = 1
                      /\ \A k \in pairs : result.out[k][2] = n
        /\ \A k \in 1..Len(result.out) : result.out[k][1] \in ContextsIn(files)

\* the context names of the outlines in alphabetical order
Alphabet == <<"home", "work">>
Rank(c) == CHOOSE k \in 1..Len(Alphabet) : Alphabet[k] = c

\* C10 as stated: the pairs of ContextList are sorted by count, largest
\* first, and pairs of equal count by context name in alphabetical order
C10_SortedByCountThenName ==
    result.op = "ContextList" =>
        \A a, b \in 1..Len(result.out) :
            a < b =>
                \/ result.out[a][2] > result.out[b][2]
                \/ /\ result.out[a][2] = result.out[b][2]
                   /\ Rank(result.out[a][1]) < Rank(result.out[b][1])
(***************************************************************************)
(* The MarkDONE patch, forwards and backwards.                             *)
(***************************************************************************)
\* the patch in hand is a MarkDONE patch
MarkDonePatch(p) ==
    /\ p # NoPatch
    /\ Len(p.old) = 1
    /\ p.new = <<[p.old[1] EXCEPT !.tokens = Append(@, DoneToken(Noon))]>>

\* the nodes of the file that start at the line
NodesAtLine(fs, f, line) ==
    {i \in 1..Len(fs[f].nodes) : fs[f].nodes[i]._line_in_file = line}

Listed(out, f, i) == \E k \in 1..Len(out) : out[k].f = f /\ out[k].i = i

\* the file holds the new line of the patch and was read again: the node
\* is done and NextActions does not return it; the file holds the old line
\* and was read again: the node is not done, and NextActions returns it
\* when it is a next action that does not recur, under no done project
C11_Reread ==
    MarkDonePatch(patch) =>
        /\ (Applies(disk[patch.file], Reverse(patch)) /\ Fresh(patch.file)) =>
              \A i \in NodesAtLine(files, patch.file, patch.line) :
                 /\ files[patch.file].nodes[i].done
                 /\ result.op = "NextActions" =>
                        ~Listed(result.out, patch.file, i)
        /\ (Applies(disk[patch.file], patch) /\ Fresh(patch.file)) =>
              \A i \in NodesAtLine(files, patch.file, patch.line) :
                 /\ ~files[patch.file].nodes[i].done
                 /\ (/\ result.op = "NextActions"
                     /\ files[patch.file].nodes[i].type = "NextAction"
                     /\ ~files[patch.file].nodes[i].recurring
                     /\ \A a \in ChainOf(files[patch.file].nodes, i) :
                           ~files[patch.file].nodes[a].done) =>
                        Listed(result.out, patch.file, i)

\* patch(1) has applied the patch: patch -R applies to the file it left and
\* gives back the file as it was; patch -R has applied: the patch applies
\* again
C11_Step ==
    (MarkDonePatch(patch) /\ disk' # disk) =>
        /\ Applies(disk[patch.file], patch) =>
              /\ Applies(disk'[patch.file], Reverse(patch))
              /\ Patched(disk'[patch.file], Reverse(patch)) = disk[patch.file]
        /\ Applies(disk[patch.file], Reverse(patch)) =>
              /\ Applies(disk'[patch.file], patch)
              /\ Patched(disk'[patch.file], patch) = disk[patch.file]

\* C11: for a Project or NextAction that is not done, applying its MarkDONE
\* patch and reading the file again makes the node done, so that it leaves
\* NextActions; applying the same patch in reverse leaves the file
\* identical to the original, and after reading it again the action is
\* listed again
C11_MarkDoneRoundTrip == []C11_Reread /\ [][C11_Step]_vars

\* the only action of a file has been checked off by its patch, the patch
\* has been applied in reverse, and NextActions has returned the action
C11_Witness ==
    /\ disk["a.vtd"] = <<Ln("@", 0, <<>>)>>
    /\ mtime["a.vtd"] = clock
    /\ MarkDonePatch(patch)
    /\ Fresh("a.vtd")
    /\ result.op = "NextActions"
    /\ Listed(result.out, "a.vtd", 1)

(***************************************************************************)
(* The UpdateLASTDONE patch.                                               *)
(***************************************************************************)
\* the patch in hand is the UpdateLASTDONE patch generated with now
UpdatePatch(p, now) ==
    /\ p # NoPatch
    /\ ~MarkDonePatch(p)
    /\ \/ p.new = UpdatedLines(now, p.old)
       \/ p.new = WithLastDone(now, UpdatedLines(now, p.old), "new")

\* the registered files with the file of the patch as it was before
Before(p) ==
    [files EXCEPT ![p.file] = File(p.file, Patched(disk[p.file], Reverse(p)))]

\* RecurringActions(now) listed the node before the patch was applied
WasVisible(p, i, now) ==
    /\ Applies(disk[p.file], Reverse(p))
    /\ Listed(ListQuery("RecurringActions", Before(p), now, include,
                        exclude).out, p.file, i)

\* C12: for a recurring action that is visible at now, after the
\* UpdateLASTDONE patch generated with that now has been applied and the
\* file read again, last_done is now to the minute and RecurringActions(now)
\* does not return the action, with or without an earlier LASTDONE, for
\* every now
C12_CheckedOffUntilNextInterval ==
    \A now \in PatchNows :
        (UpdatePatch(patch, now) /\ Fresh(patch.file)) =>
            \A i \in NodesAtLine(files, patch.file, patch.line) :
                WasVisible(patch, i, now) =>
                    /\ files[patch.file].nodes[i].last_done
                          = now - (now % SecPerMin)
                    /\ (result.op = "RecurringActions" /\ result.now = now) =>
                          /\ ~result.raised
                          /\ ~Listed(result.out, patch.file, i)

(***************************************************************************)
(* Refresh.                                                                *)
(***************************************************************************)
\* the step is a call of Refresh(force): it reads again the files it has
\* to, keeps the others, registers no file and sets last_refreshed
RefreshStep(force) ==
    Refresh(force) =>
        /\ DOMAIN files' = DOMAIN files
        /\ \A f \in DOMAIN files :
              /\ (force \/ mtime[f] > last_refreshed) =>
                    files'[f] = File(f, disk[f])
              /\ ~(force \/ mtime[f] > last_refreshed) => files'[f] = files[f]
        /\ last_refreshed' = clock

\* the step is a query or a step of the caller between two calls of Refresh
BetweenRefreshes ==
    /\ CallNextActions(Noon) =>
          /\ files' = files
          /\ result'.out = NextActions(files, Noon, include, exclude).out
    /\ (ApplyPatch \/ Tick) => files' = files

\* C13: Refresh(force=False) parses again a registered file if and only if
\* its mtime is greater than last_refreshed, keeps the tree of every other
\* registered file, and then sets last_refreshed to the wall clock;
\* Refresh(force=True) parses every registered file again; the queries
\* between two calls of Refresh see the forest of the earlier one
C13_Refresh ==
    [][(\A force \in BOOLEAN : RefreshStep(force)) /\ BetweenRefreshes]_vars

\* both files were changed on disk, a.vtd after the last Refresh and b.vtd
\* at its instant; Refresh has read a.vtd again and kept the tree of b.vtd,
\* and NextActions returns the action that b.vtd holds as done
C13_Witness ==
    /\ DOMAIN files = {"a.vtd", "b.vtd"}
    /\ last_refreshed = 2
    /\ mtime = [f \in DOMAIN disk |-> IF f = "a.vtd" THEN 2 ELSE 1]
    /\ InSync("a.vtd") /\ files["a.vtd"].nodes[1].done
    /\ ~InSync("b.vtd") /\ ~files["b.vtd"].nodes[1].done
    /\ result.op = "NextActions"
    /\ Listed(result.out, "b.vtd", 1)

(***************************************************************************)
(* Files that cannot be opened.                                            *)
(***************************************************************************)
\* AddFile of a name without a file gives a File without children that has
\* the condition among its bad lines
C14_Recorded ==
    \A f \in Names :
        (AddFile(f) /\ f \notin DOMAIN disk /\ f \in DOMAIN files') =>
            /\ files'[f].nodes = <<>>
            /\ files'[f].bad_lines # <<>>

\* a Refresh reads a file that has appeared since
C14_Retried ==
    \A force \in BOOLEAN : \A f \in DOMAIN files :
        (/\ Refresh(force)
         /\ f \in DOMAIN disk
         /\ force \/ mtime[f] > last_refreshed) =>
            files'[f] = File(f, disk[f])

\* no call of Refresh raises
C14_Completes == result.op = "Refresh" => ~result.raised

\* C14: when a registered file cannot be opened its File is created with no
\* children and the condition is recorded in the bad_lines of that File,
\* and every later Refresh completes normally and tries to read the file
\* again
C14_UnopenedFileRecorded ==
    [][C14_Recorded /\ C14_Retried]_vars /\ []C14_Completes

(***************************************************************************)
(* Queries do not raise.                                                   *)
(***************************************************************************)
\* C15: no public query raises, for any forest and any now; with no
\* registered file every query returns an empty list
C15_NoQueryRaises ==
    result.op \in PublicQueries =>
        /\ ~result.raised
        /\ files = NoFiles => result.out = <<>>

(***************************************************************************)
(* AbsorbText.                                                             *)
(***************************************************************************)
\* C16: for any node and any line, when AbsorbText returns False the node
\* is in exactly the state it had before the call
C16_AtomicAbsorption ==
    [][result'.op = "AbsorbText:False" => files' = files]_vars

\* an action has refused a line that holds a context and is not indented
\* enough, and has no context
C16_Witness ==
    /\ result.op = "AbsorbText:False"
    /\ result.out = <<Lw("", 2, <<Home>>, <<"w">>)>>
    /\ files[result.f].nodes[result.i].type = "NextAction"
    /\ files[result.f].nodes[result.i]._text = <<"w">>
    /\ files[result.f].nodes[result.i]._contexts = <<>>

(***************************************************************************)
(* Tokens whose date does not exist.                                       *)
(***************************************************************************)
\* the node without its text
Attributes(n) == [n EXCEPT !._text = <<>>, !._raw_text = <<>>]

Exists(t) == t.ok
TextOf(n) == {n._text[k] : k \in 1..Len(n._text)}

\* the call has absorbed a line: the tokens of the kinds ks whose date does
\* not exist are in the text of the node, and the node has the attributes
\* that the line without those tokens gives it
KeptVerbatim(ks, n, m, line) ==
    (\E k \in 1..Len(line.tokens) :
        line.tokens[k].k \in ks /\ ~line.tokens[k].ok) =>
        /\ \A k \in 1..Len(line.tokens) :
              (line.tokens[k].k \in ks /\ ~line.tokens[k].ok) =>
                  TokText(line.tokens[k]) \in TextOf(m)
        /\ Attributes(m)
              = Attributes(AbsorbText(n, SelectSeq(line.tokens, Exists),
                                      line.words, line).n)

Absorbed(ks) ==
    result'.op = "AbsorbText:True" =>
        KeptVerbatim(ks, files[result'.f].nodes[result'.i],
                     files'[result'.f].nodes[result'.i], result'.out[1])

\* a (DONE date) or (WONTDO date) marks a Project or NextAction done,
\* whatever the date
DoneWhateverDate ==
    (/\ result'.op = "AbsorbText:True"
     /\ IsDoable(files[result'.f].nodes[result'.i])
     /\ \E k \in 1..Len(result'.out[1].tokens) :
           result'.out[1].tokens[k].k = "done") =>
        files'[result'.f].nodes[result'.i].done

\* C17 as stated: a token whose date does not exist, in a due-date,
\* visible-date, DONE/WONTDO or LASTDONE token, remains in the text of the
\* node and changes no attribute; the valid tokens of the line are parsed
C17_EveryDateToken ==
    [][Absorbed({"due", "vis", "done", "lastdone"})]_vars

\* C17: a due-date, visible-date or LASTDONE token whose date does not
\* exist remains in the text of the node and changes no attribute, and the
\* valid tokens of the line are parsed; a DONE or WONTDO token marks the
\* node done whatever its date
C17_DueVisibleLastDone ==
    [][Absorbed({"due", "vis", "lastdone"}) /\ DoneWhateverDate]_vars

\* an action has absorbed '<2013-06-31 <2013-06-29 18:59': the first is in
\* its text, the second is its due date
C17_Witness ==
    /\ result.op = "AbsorbText:True"
    /\ result.out = <<Lw("", 4, <<NoSuchDate("due"), Due629>>, <<"w">>)>>
    /\ files[result.f].nodes[result.i].type = "NextAction"
    /\ files[result.f].nodes[result.i]._due_date
          = Combine(DaysFromCivil(2013, 6, 29), HM(18, 59))
    /\ TokText(NoSuchDate("due")) \in TextOf(files[result.f].nodes[result.i])

(***************************************************************************)
(* AddChild.                                                               *)
(***************************************************************************)
\* the File, or the node, as a parent
AsParent(nodes, p) ==
    IF p = 0 THEN [type |-> "File", indent |-> 0, level |-> 0] ELSE nodes[p]

Indented(P) == P.type \in {"Project", "NextAction", "Comment"}

\* the rule with the indentation compared between nodes of the same level
SameLevelRule(P, C) ==
    \/ _level(P.type) < _level(C.type)
    \/ /\ _level(P.type) = _level(C.type)
       /\ _can_nest_same_type(P.type)
       /\ Indented(P) => P.indent < C.indent
       /\ P.type = "Section" => P.level < C.level

\* the rule with the indentation compared whenever the parent is indented
EveryLevelRule(P, C) ==
    /\ \/ _level(P.type) < _level(C.type)
       \/ /\ _level(P.type) = _level(C.type)
          /\ _can_nest_same_type(P.type)
          /\ P.type = "Section" => P.level < C.level
    /\ Indented(P) => P.indent < C.indent

\* the nodes that File.__init__ offers the node of index i to, from the
\* node before it up to the File
Offered(nodes, i) == IF i = 1 THEN {0} ELSE ChainOf(nodes, i - 1) \cup {0}

\* C18 as stated: AddChild(P, C) succeeds if and only if P.level < C.level,
\* or the levels are equal, P permits nesting of its own type and, for
\* indented nodes, P.indent < C.indent and, for Sections, the header of P
\* is less deep than that of C; the indentation is compared only between
\* nodes of the same level.  Every node of a file is the child of the
\* first node offered to it that the rule accepts.
C18_IndentAtSameLevel ==
    \A f \in DOMAIN files : \A i \in 1..Len(files[f].nodes) :
        /\ files[f].nodes[i].parent \in Offered(files[f].nodes, i)
        /\ \A q \in Offered(files[f].nodes, i) :
              q >= files[f].nodes[i].parent =>
                 (SameLevelRule(AsParent(files[f].nodes, q), files[f].nodes[i])
                    <=> q = files[f].nodes[i].parent)

\* C18: AddChild(P, C) succeeds if and only if P.level < C.level or the
\* levels are equal and P permits nesting of its own type (for Sections:
\* the header of P is less deep than that of C), and, when P is a Project,
\* a NextAction or a Comment, P.indent < C.indent, whatever the levels
C18_IndentAtEveryLevel ==
    \A f \in DOMAIN files : \A i \in 1..Len(files[f].nodes) :
        /\ files[f].nodes[i].parent \in Offered(files[f].nodes, i)
        /\ \A q \in Offered(files[f].nodes, i) :
              q >= files[f].nodes[i].parent =>
                 (EveryLevelRule(AsParent(files[f].nodes, q), files[f].nodes[i])
                    <=> q = files[f].nodes[i].parent)

\* the file '  # w', '@ w' has been read: the project at indentation 2 has
\* refused the action at indentation 0, which is a child of the File
C18_Witness ==
    /\ disk["a.vtd"] = <<Lw("#", 2, <<>>, <<"w">>), Lw("@", 0, <<>>, <<"w">>)>>
    /\ InSync("a.vtd")
    /\ files["a.vtd"].nodes[2].parent = 0

(***************************************************************************)
(* Continuation lines.                                                     *)
(***************************************************************************)
\* C19: a blank line is always accepted as continuation: whatever node
\* precedes it (File, Section, Project, NextAction or Comment), a blank line
\* never adds an entry to the bad_lines of the File
C19_BlankLineNeverBad ==
    \A f \in DOMAIN files : \A k \in 1..Len(files[f].bad_lines) :
        ~IsBlank(files[f].bad_lines[k][2])

\* the node absorbs the line if and only if the line is blank or begins
\* with indent + 2 spaces
ByIndentation(n, line, ok) ==
    ok <=> (IsBlank(line) \/ line.indent >= n.indent + 2)

\* C20: once a Project, NextAction or Comment has absorbed its first line,
\* it absorbs a later line if and only if that line is blank or begins with
\* at least indent + 2 spaces, whatever the first line contained, also a
\* first line made only of tokens
C20_LaterLinesByIndentation ==
    [][(/\ result'.op \in {"AbsorbText:True", "AbsorbText:False"}
        /\ Indented(files[result'.f].nodes[result'.i])
        /\ Len(files[result'.f].nodes[result'.i]._raw_text) >= 1) =>
            ByIndentation(files[result'.f].nodes[result'.i], result'.out[1],
                          result'.op = "AbsorbText:True")]_vars

(***************************************************************************)
(* Recurrence parameters and interval boundaries: one NextAction           *)
(* "EVERY [min-][max] unit [[vis - ]due] (LASTDONE date time)", with and   *)
(* without brackets, done around the end of January 2013, asked for its    *)
(* DateState at growing instants.                                          *)
(***************************************************************************)
\* unit, visible sub-boundary, due boundary; NoString where the brackets or
\* the visible part are absent
StableShapes ==
    {[unit |-> "day", vis |-> NoString, due |-> NoString],
     [unit |-> "week", vis |-> NoString, due |-> NoString],
     [unit |-> "month", vis |-> NoString, due |-> NoString],
     [unit |-> "day", vis |-> Bd(None, HM(9, 0)), due |-> Bd(None, HM(17, 0))],
     [unit |-> "week", vis |-> Bd(4, HM(9, 0)), due |-> Bd(4, HM(17, 0))],
     [unit |-> "month", vis |-> Bd(1, HM(9, 0)), due |-> Bd(3, HM(17, 0))],
     [unit |-> "month", vis |-> Bd(0 - 3, HM(9, 0)), due |-> Bd(0, HM(18, 0))],
     [unit |-> "month", vis |-> NoString, due |-> Bd(28, None)]}

\* [min-]max as written: nothing, "2", "1-2", "2-1", "0"
StableCounts == {<<None, None>>, <<None, 2>>, <<1, 2>>, <<2, 1>>, <<None, 0>>}

StableDays == DaysFromCivil(2013, 1, 27) .. DaysFromCivil(2013, 2, 3)
StableTimes == {HM(9, 0), HM(12, 0), HM(17, 0), HM(18, 0)}

\* the instants at which the action is asked for its state
StableNows(n) ==
    {n.last_done + d * SecPerDay : d \in {0, 1, 8, 32, 70}}

InitStable ==
    /\ \E shape \in StableShapes, counts \in StableCounts,
          day \in StableDays, tod \in StableTimes :
          disk = [f \in {"a.vtd"} |-> <<RecurLine(shape, counts, day, tod)>>]
    /\ Loaded

NextStable == \E now \in StableNows(TheAction) : CallDateState("a.vtd", 1, now)

SpecStable == InitStable /\ [][NextStable]_vars

\* last_done moved on by max units, counted like the due boundary
Advanced(n) ==
    DateAdvance(n._recur_unit, n.last_done, n._recur_max, due_from_start(n))

\* the dates of the node moved on by max units
DatesAdvanced(n) ==
    <<DateAdvance(n._recur_unit, n._visible_date, n._recur_max,
                  vis_from_start(n)),
      DateAdvance(n._recur_unit, n._ready_date, n._recur_max,
                  due_from_start(n)),
      DateAdvance(n._recur_unit, n._due_date, n._recur_max,
                  due_from_start(n))>>

\* the node done max units later
DoneLater(n) == _SetRecurringDates([n EXCEPT !.last_done = Advanced(n)])

\* C21: for a recurring node whose dates were computed, last_done moved on
\* by exactly max units (days, weeks or months, from the end of the month
\* when the boundary is counted from there) gives visible, ready and due
\* dates that are each moved on by exactly max units
C21_RecurrenceStability ==
    (result.op = "DateState" /\ ~result.raised) =>
        /\ ~DoneLater(TheAction).raised
        /\ Dates(DoneLater(TheAction).n) = DatesAdvanced(TheAction)

\* C22: every recurring node has recurrence parameters min and max that are
\* positive integers with min <= max
C22_PositiveMinMax ==
    \A f \in DOMAIN files : \A i \in 1..Len(files[f].nodes) :
        files[f].nodes[i].recurring =>
            /\ files[f].nodes[i]._recur_min >= 1
            /\ files[f].nodes[i]._recur_max >= 1
            /\ files[f].nodes[i]._recur_min <= files[f].nodes[i]._recur_max

(***************************************************************************)
(* Reserved contexts.                                                      *)
(***************************************************************************)
\* a node of the chain from the node up to the File is marked waiting
WaitingAlong(nodes, i) == \E a \in ChainOf(nodes, i) : nodes[a].waiting

\* C23: the flag waiting of a node is the boolean OR of the flags along its
\* parent chain, so an action under a project or section marked waiting is
\* itself waiting and NextActions does not list it
C23_WaitingInherited ==
    (result.op = "NextActions" /\ ~result.raised) =>
        \A k \in 1..Len(result.out) :
            ~result.out[k].stub =>
                /\ files[result.out[k].f].nodes[result.out[k].i].waiting
                       = WaitingAlong(files[result.out[k].f].nodes,
                                      result.out[k].i)
                /\ ~WaitingAlong(files[result.out[k].f].nodes, result.out[k].i)

(***************************************************************************)
(* The tree that File.__init__ builds.                                     *)
(***************************************************************************)
\* the numbers of the lines of the file that start a node, in order
StartLines(lines) == SelectSeq([k \in 1..Len(lines) |-> k],
                               LAMBDA k : lines[k].sigil # "")

\* the node of index i is the child of the nearest node, from the node
\* before it up to the File, that can contain it
NearestContainer(nodes, i) ==
    /\ nodes[i].parent \in Offered(nodes, i)
    /\ _CanContain(nodes, nodes[i].parent, nodes[i])
    /\ \A q \in Offered(nodes, i) :
          q > nodes[i].parent => ~_CanContain(nodes, q, nodes[i])

\* C24: every line that starts a node gives one node of the tree, in the
\* order of the lines (none is dropped); each node is the child of the
\* nearest node on the chain previous, previous.parent, ..., File that can
\* contain it, so every parent can contain each of its children; and a
\* child of a Project, NextAction or Comment is strictly more indented than
\* that parent
C24_NearestContainer ==
    \A f \in DOMAIN files :
        /\ InSync(f) =>
              /\ Len(files[f].nodes) = Len(StartLines(disk[f]))
              /\ \A i \in 1..Len(files[f].nodes) :
                    files[f].nodes[i]._line_in_file = StartLines(disk[f])[i]
        /\ \A i \in 1..Len(files[f].nodes) :
              /\ NearestContainer(files[f].nodes, i)
              /\ Indented(AsParent(files[f].nodes, files[f].nodes[i].parent)) =>
                    AsParent(files[f].nodes, files[f].nodes[i].parent).indent
                        < files[f].nodes[i].indent

\* the file '# w', '  # w', '  @ w' has been read: the inner project has
\* refused the action, which is the second child of the outer project
C24_Witness ==
    /\ disk["a.vtd"] = <<Lw("#", 0, <<>>, <<"w">>), Lw("#", 2, <<>>, <<"w">>),
                         Lw("@", 2, <<>>, <<"w">>)>>
    /\ InSync("a.vtd")
    /\ files["a.vtd"].nodes[2].parent = 1
    /\ files["a.vtd"].nodes[3].parent = 1

(***************************************************************************)
(* The interval boundaries before last_done.                               *)
(***************************************************************************)
\* the due boundary before last_done, as _SetRecurringDates asks for it
DueBoundaryBefore(n) ==
    IntervalBoundary(n._recur_unit, n.last_done, n._recur_unit_boundary, TRUE)

\* C25: PreviousTime, PreviousWeekDay and PreviousMonthDay return, without
\* failing, the latest instant matching the specifier that is strictly
\* before t, for every t, also a t that matches the specifier exactly
C25_StrictlyBefore ==
    result.op = "DateState" =>
        /\ DueBoundaryBefore(TheAction) # Raised
        /\ DueBoundaryBefore(TheAction) < TheAction.last_done
        /\ TheAction._recur_unit_boundary.given =>
              DueBoundaryBefore(TheAction)
                  = SetMax({d \in DueBoundaries(TheAction) :
                               d < TheAction.last_done})

\* C26: PreviousTime without a time specifier uses 00:00 for a visible
\* date (due=False) and 23:59 for a due date (due=True), so the due
\* boundary and the due date of an "EVERY day" action without brackets are
\* at 23:59
C26_DayDueAtEndOfDay ==
    (/\ result.op = "DateState"
     /\ TheAction._recur_unit = "day"
     /\ ~TheAction._recur_unit_boundary.given) =>
        /\ TimeOf(PreviousTime(TheAction.last_done, NoString, FALSE)) = 0
        /\ TimeOf(PreviousTime(TheAction.last_done, NoString, TRUE)) = EndOfDay
        /\ TimeOf(TheAction._due_date) = EndOfDay

(***************************************************************************)
(* What queries and patch generation leave alone.                          *)
(***************************************************************************)
\* the results of the queries and of the Patch calls
QueryOps ==
    {"NextActions", "RecurringActions", "Inboxes", "Waiting", "AllActions",
     "ContextList", "DateState", "MarkDONE", "UpdateLASTDONE"}

\* the dates that the nodes of the files report
Reported(fs) ==
    [f \in DOMAIN fs |->
        [i \in 1..Len(fs[f].nodes) |->
            <<due_date(fs[f].nodes, i), ready_date(fs[f].nodes, i),
              visible_date(fs[f].nodes, i)>>]]

\* C27: no query and no Patch call changes an attribute of a node of the
\* forest, and the due, ready and visible dates that the nodes report are
\* the same after the call as before it
C27_QueriesChangeNoNode ==
    [][result'.op \in QueryOps =>
          /\ files' = files
          /\ Reported(files') = Reported(files)]_vars

(***************************************************************************)
(* Raw text: files of actions, plain and recurring, with lines that start  *)
(* no node, indented and not, and the UpdateLASTDONE patches of their      *)
(* nodes.                                                                  *)
(***************************************************************************)
RawLines ==
    {Ln("@", 0, <<>>), Ln("", 0, <<>>), Ln("", 2, <<>>),
     RecurLine([unit |-> "day", vis |-> Bd(None, HM(9, 0)),
                due |-> Bd(None, HM(17, 0))],
               <<None, None>>, DaysFromCivil(2013, 9, 8), HM(9, 30))}

MaxRawLines == 3

InitRaw ==
    /\ disk \in [{"a.vtd"} -> SeqsUpTo(RawLines, MaxRawLines)]
    /\ Loaded

NextRaw ==
    \/ \E f \in DOMAIN files : \E i \in 1..Len(files[f].nodes) :
          /\ Fresh(f)
          /\ \E now \in PatchNows : CallPatch("UpdateLASTDONE", f, i, now)
    \/ RunPatch(FALSE)
    \/ Refresh(TRUE)

SpecRaw == InitRaw /\ [][NextRaw]_vars

\* the lines of raw_text are the lines of the file from line_in_file on
Consecutive(lines, n) ==
    /\ n._line_in_file + Len(n._raw_text) - 1 <= Len(lines)
    /\ \A k \in 1..Len(n._raw_text) :
          n._raw_text[k] = lines[n._line_in_file + k - 1]

\* C28: for every node of a parsed file the lines in raw_text are the
\* file's consecutive lines line_in_file .. line_in_file + len(raw_text) - 1
\* in order; hence the lines that an UpdateLASTDONE hunk removes are the
\* lines the file has at that place, and the patch applies to the file it
\* was generated from
C28_RawTextIsConsecutive ==
    /\ \A f \in DOMAIN files :
          Fresh(f) => \A i \in 1..Len(files[f].nodes) :
                          Consecutive(disk[f], files[f].nodes[i])
    /\ (result.op = "UpdateLASTDONE" /\ patch # NoPatch /\ Fresh(patch.file)) =>
          Applies(disk[patch.file], patch)

(***************************************************************************)
(* Refresh and AddFile beside a process that writes the files.  The calls  *)
(* are taken statement by statement: the loop over the registered files    *)
(* (trusted_system.py 38-40), the assignment of last_refreshed (line 41),  *)
(* the parse of the new file (line 26).  result.op holds the position of   *)
(* the running call, result.f the file that AddFile is adding.  Every      *)
(* write and every reading of the wall clock has an instant of its own.    *)
(***************************************************************************)
MaxRaceClock == 5

Running == {"Refresh:loop", "AddFile:loop", "AddFile:refreshed"}

\* the loop of Refresh(force=False), entered from Refresh (op "Refresh:loop")
\* or from AddFile(f) (op "AddFile:loop")
RefreshLoop(op, f) ==
    /\ result.op \notin Running
    /\ Missing(files) = {}
    /\ files' = Refreshed(files, FALSE)
    /\ result' = [Returned(op, None, <<>>, FALSE) EXCEPT !.f = f]
    /\ UNCHANGED <<disk, mtime, clock, last_refreshed, include, exclude, patch>>

\* self.last_refreshed = now, which ends Refresh
RefreshSet ==
    /\ result.op \in {"Refresh:loop", "AddFile:loop"}
    /\ clock < MaxRaceClock
    /\ clock' = clock + 1
    /\ last_refreshed' = clock + 1
    /\ result' = IF result.op = "Refresh:loop" THEN NoResult
                 ELSE [result EXCEPT !.op = "AddFile:refreshed"]
    /\ UNCHANGED <<disk, mtime, files, include, exclude, patch>>

\* self._files[file_name] = libvtd.node.File(file_name), which ends AddFile
AddFileParse ==
    /\ result.op = "AddFile:refreshed"
    /\ files' = Added(files, result.f)
    /\ result' = NoResult
    /\ UNCHANGED <<disk, mtime, clock, last_refreshed, include, exclude, patch>>

\* another process writes the file
ExternalWrite(f, lines) ==
    /\ f \in DOMAIN disk
    /\ lines # disk[f]
    /\ clock < MaxRaceClock
    /\ clock' = clock + 1
    /\ disk' = [disk EXCEPT ![f] = lines]
    /\ mtime' = [mtime EXCEPT ![f] = clock + 1]
    /\ UNCHANGED <<files, last_refreshed, include, exclude, result, patch>>

\* two files on disk, a.vtd registered
InitRace ==
    /\ disk \in [Names -> RefreshFiles]
    /\ mtime = [f \in DOMAIN disk |-> 0]
    /\ clock = 1
    /\ files = [f \in {"a.vtd"} |-> File(f, disk[f])]
    /\ last_refreshed = clock
    /\ include = {}
    /\ exclude = {}
    /\ result = NoResult
    /\ patch = NoPatch

NextRace ==
    \/ RefreshLoop("Refresh:loop", "")
    \/ \E f \in Names : RefreshLoop("AddFile:loop", f)
    \/ RefreshSet
    \/ AddFileParse
    \/ \E f \in Names, lines \in RefreshFiles : ExternalWrite(f, lines)

SpecRace == InitRace /\ [][NextRace]_vars

\* the tree of a registered file is not what the file holds
Stale(f) == f \in DOMAIN disk /\ files[f] # File(f, disk[f])

\* C29: every modification of a registered file by another process is
\* picked up by a later Refresh(force=False), whenever it lands: between
\* two calls, while the loop of a Refresh has passed the file and
\* last_refreshed is not yet set, or inside AddFile.  Outside a running
\* call a registered file whose tree is stale has an mtime greater than
\* last_refreshed, so that the next Refresh reads it again
C29_NoUpdateLost ==
    result.op \notin Running =>
        \A f \in DOMAIN files : Stale(f) => mtime[f] > last_refreshed

(***************************************************************************)
(* DateState as time passes: a project, plain or recurring every day, and  *)
(* an action in it, asked for their states and listed at instants that do  *)
(* not decrease.                                                           *)
(***************************************************************************)
OrderProjects ==
    {Ln("-", 0, <<>>),
     Ln("-", 0, <<EveryDay, [Tok("lastdone") EXCEPT !.n = Sep(1),
                                                   !.tod = HM(9, 0)]>>),
     Ln("-", 0, <<EveryDay, [Tok("lastdone") EXCEPT !.n = Sep(10),
                                                   !.tod = HM(9, 0)]>>)}

OrderActions ==
    {Ln("@", 2, <<>>),
     Ln("@", 2, <<[Tok("lastdone") EXCEPT !.n = Sep(1), !.tod = HM(9, 0)]>>),
     Ln("@", 2, <<[Tok("lastdone") EXCEPT !.n = Sep(9), !.tod = HM(9, 0)]>>),
     Ln("@", 2, <<DueTok(Sep(11), HM(12, 0), 1)>>),
     Ln("@", 2, <<VisTok(Sep(11), None)>>)}

OrderNows ==
    {At(2013, 9, 10, 12, 0), At(2013, 9, 10, 18, 0), At(2013, 9, 11, 12, 0),
     At(2013, 9, 12, 12, 0)}

InitOrder ==
    /\ \E p \in OrderProjects, a \in OrderActions :
          disk = [f \in {"a.vtd"} |-> <<p, a>>]
    /\ Loaded

NextOrder ==
    \/ \E now \in OrderNows, i \in 1..Len(files["a.vtd"].nodes) :
          now >= result.now /\ CallDateState("a.vtd", i, now)
    \/ \E now \in OrderNows :
          now >= result.now /\ CallListQuery("RecurringActions", now)

SpecOrder == InitOrder /\ [][NextOrder]_vars

\* the place of a state in the order invisible, ready, due, late
StateRank(state) ==
    CASE state = "invisible" -> 0
      [] state = "ready" -> 1
      [] state = "due" -> 2
      [] state = "late" -> 3
      [] OTHER -> 0 - 1

\* what node.DateState(now) returns in the forest fs
Answer(fs, f, i, now) == DateState(fs[f].nodes, i, now).state

\* the state before and the state after, when neither call raises
Forward(before, after) ==
    IF before = "Raised" \/ after = "Raised" THEN TRUE
    ELSE IF before = "new" THEN after = "new"
    ELSE StateRank(after) >= StateRank(before)

\* a node with an effective due date has an effective ready date that is
\* not later
ReadyBeforeDue(nodes, i) ==
    due_date(nodes, i) # None =>
        ready_date(nodes, i) # None /\ ready_date(nodes, i) <= due_date(nodes, i)

\* C30: with the files unchanged and now not decreasing, the DateState of a
\* node never moves backwards: whatever a call of a query or of DateState
\* on this or another node does, the state a node reports at or after the
\* instant of the call is not before, in the order invisible, ready, due,
\* late, the state it reported at or before it, and a recurring node
\* without last_done stays new; and in every state a node with an effective
\* due date has an effective ready date that is not later
C30_NeverBackwards ==
    /\ [](\A f \in DOMAIN files : \A i \in 1..Len(files[f].nodes) :
             ReadyBeforeDue(files[f].nodes, i))
    /\ [][\A f \in DOMAIN files : \A i \in 1..Len(files[f].nodes) :
             IsDoable(files[f].nodes[i]) =>
                \A t \in OrderNows, u \in OrderNows :
                    (t <= result'.now /\ result'.now <= u) =>
                        Forward(Answer(files, f, i, t), Answer(files', f, i, u))]_vars

====
